---- MODULE Spec2Model ----
(***************************************************************************)
(* Availability and menu normalisation of the dining scrapers              *)
(* (src/scrapers/columbia/scraper.py, src/scrapers/cornell/scraper.py,     *)
(* src/scrapers/base_scraper.py).                                          *)
(*                                                                         *)
(* A wall clock instant is [date, minute]: date is a day ordinal whose     *)
(* weekday is date % 7 (0 = Monday, as datetime.weekday()), minute is the  *)
(* minute of the New York day.  JSON values of the upstream payload are    *)
(* tagged records, so that a missing key, a null and a value of the wrong  *)
(* type stay distinguishable; text is a sequence of one-character strings. *)
(***************************************************************************)
EXTENDS Integers, Sequences, FiniteSets, TLC

VARIABLES
    now,               \* the wall clock read by now_ny()
    hall_meal_times,   \* module global HALL_MEAL_TIMES
    static_locations,  \* module global STATIC_MENU_LOCATIONS
    hall,              \* name of the venue being processed
    open_result,       \* last value returned by is_hall_open_now
    meal_result,       \* last value returned by get_current_meal_for_hall
    static_result,     \* last value returned by is_static_hall_open
    date_range,        \* the date_range object handed to is_today_in_date_range
    filter_result,     \* last outcome of is_today_in_date_range
    task,              \* which scraper runs: "dynamic", "barnard", "cornell"
    upstream,          \* what requests.get / extract_menu_data will yield
    pc,                \* position inside the running scraper
    meal_times,        \* local meal_times of scrape_dynamic_hall (line 625)
    open_day_read,     \* instant read by is_hall_open_now for the weekday
    is_open,           \* local is_open of scrape_dynamic_hall (line 626)
    meals_by_type,     \* local meals_by_type of scrape_dynamic_hall
    frag_i,            \* index of the next date_range of the loop at line 660
    record,            \* the record returned for the venue
    barnard_responses, \* per period, what the DineOnCampus API will answer
    cornell_sources,   \* what each Cornell source will yield
    results,           \* the list returned by CornellScraper.scrape
    parked,            \* the frame of a second venue's call, while suspended
    run_pc,            \* position inside run_all_scrapers
    all_results,       \* local all_results of run_all_scrapers
    menu_data_json,    \* the file menu_data.json of the script directory
    thread_pc,         \* per thread of the server, its position
    refresh_lock,      \* _refresh_lock: the thread holding it, or NoThread
    refresh_in_progress, \* _refresh_in_progress: whether the Event is set
    returncode,        \* per thread, how the scraper step of its run ended
    daily_runs,        \* how often the 03:00 job of the scheduler came due
    menu_with_nutrition_json, \* the file menu_with_nutrition.json
    ratings,           \* the rows of the table ratings of ratings.db
    next_id,           \* the next AUTOINCREMENT id of the table
    submitted,         \* the calls of submit_rating that returned, in order
    db_result,         \* what the last call of database.py returned
    leaked_connection  \* a connection with an open transaction is alive

resolver_vars == <<open_result, meal_result, static_result>>
filter_vars == <<date_range, filter_result>>
catalog_vars == <<hall_meal_times, static_locations>>
input_vars == <<task, hall, upstream, barnard_responses, cornell_sources,
                parked>>
dynamic_vars == <<meal_times, open_day_read, is_open, meals_by_type, frag_i>>
run_vars == <<run_pc, all_results, menu_data_json>>
server_vars == <<thread_pc, refresh_lock, refresh_in_progress, returncode,
                 daily_runs, menu_with_nutrition_json>>
db_vars == <<ratings, next_id, submitted, db_result, leaked_connection>>
system_vars == <<run_vars, server_vars, db_vars>>

vars == <<now, hall_meal_times, static_locations, hall,
          open_result, meal_result, static_result,
          date_range, filter_result,
          task, upstream, pc, meal_times, open_day_read, is_open,
          meals_by_type, frag_i, record, barnard_responses, cornell_sources,
          results, parked,
          run_pc, all_results, menu_data_json,
          thread_pc, refresh_lock, refresh_in_progress, returncode,
          daily_runs, menu_with_nutrition_json,
          ratings, next_id, submitted, db_result, leaked_connection>>

----------------------------------------------------------------------------
(* Bounds of the model *)

MaxDate == 3        \* dates 0..MaxDate of the date bounds and of "today"
MaxWindows == 2     \* windows per generated Schedule Variant
MaxFragments == 2   \* date_range objects per upstream page
MaxRefresh == 2     \* threads started by trigger_refresh_async
MaxDaily == 1       \* times the 03:00 job of the scheduler comes due
MaxSubmissions == 2   \* calls of submit_rating that return

SeqsUpTo(S, n) == UNION {[1..k -> S] : k \in 0..n}

----------------------------------------------------------------------------
(* Clock *)

MINUTES_PER_DAY == 1440

DayNames == <<"monday", "tuesday", "wednesday", "thursday",
              "friday", "saturday", "sunday">>

\* now.strftime('%A').lower()
day_name(t) == DayNames[(t.date % 7) + 1]

\* now.hour * 60 + now.minute
current_minutes(t) == t.minute

AllDays == {DayNames[i] : i \in 1..7}
MonToThu == {"monday", "tuesday", "wednesday", "thursday"}
MonToFri == MonToThu \cup {"friday"}

----------------------------------------------------------------------------
(* Schedule catalog.  A hall's configuration is the ordered list of its    *)
(* schedules (one for the simple shape, whose "days" key sits at the top   *)
(* level); the meals of a schedule are kept in declaration order, which is *)
(* the iteration order of the Python dict.                                 *)

W(name, sh, sm, eh, em) ==
    [name |-> name, start |-> <<sh, sm>>, end |-> <<eh, em>>]

Sched(days, meals) == [days |-> days, meals |-> meals]

Simple(days, meals) == [simple |-> TRUE, schedules |-> <<Sched(days, meals)>>]

Complex(schedules) == [simple |-> FALSE, schedules |-> schedules]

HALL_MEAL_TIMES ==
    [h \in {"John Jay Dining Hall", "Ferris Booth Commons", "Chef Mike's",
            "Grace Dodge", "Faculty House 2nd Floor", "Faculty House Skyline",
            "Johnny's", "Fac Shack"} |->
     CASE h = "John Jay Dining Hall" ->
            Simple({"sunday"} \cup MonToThu,
                   <<W("Breakfast", 9, 30, 11, 0), W("Lunch", 11, 0, 14, 30),
                     W("Dinner", 17, 0, 21, 0)>>)
       [] h = "Ferris Booth Commons" ->
            Complex(<<
              Sched(MonToFri,
                    <<W("Breakfast", 7, 30, 10, 30), W("Lunch", 11, 0, 15, 0),
                      W("Dinner", 17, 0, 20, 0)>>),
              Sched({"saturday"},
                    <<W("Breakfast", 9, 0, 11, 0), W("Lunch", 11, 0, 15, 0),
                      W("Dinner", 17, 0, 20, 0)>>),
              Sched({"sunday"},
                    <<W("Lunch", 10, 0, 14, 0), W("Dinner", 16, 0, 20, 0)>>) >>)
       [] h = "Chef Mike's" ->
            Complex(<<
              Sched(MonToFri,
                    <<W("Lunch", 10, 30, 15, 0), W("Dinner", 17, 0, 22, 0)>>),
              Sched({"saturday"},
                    <<W("Lunch", 11, 0, 15, 0), W("Dinner", 15, 0, 19, 0)>>) >>)
       [] h = "Grace Dodge" ->
            Simple(MonToThu,
                   <<W("Lunch", 11, 0, 14, 30), W("Dinner", 14, 30, 19, 30)>>)
       [] h = "Faculty House 2nd Floor" ->
            Simple(MonToThu, <<W("Lunch", 11, 0, 14, 30)>>)
       [] h = "Faculty House Skyline" ->
            Simple(MonToThu, <<W("Lunch", 11, 0, 14, 30)>>)
       [] h = "Johnny's" ->
            Complex(<<
              Sched({"monday", "tuesday", "wednesday"},
                    <<W("Lunch", 11, 0, 14, 30)>>),
              Sched({"thursday", "friday"},
                    <<W("Lunch", 11, 0, 14, 30), W("Dinner", 19, 0, 23, 0)>>),
              Sched({"saturday"}, <<W("Dinner", 19, 0, 23, 0)>>),
              Sched({"sunday"}, <<W("Dinner", 18, 0, 22, 0)>>) >>)
       [] h = "Fac Shack" ->
            Complex(<<
              Sched(MonToThu,
                    <<W("Lunch", 12, 0, 15, 0), W("Dinner", 17, 0, 20, 0)>>),
              Sched({"sunday"}, <<W("Dinner", 15, 0, 20, 0)>>) >>)]

\* An entry of a "menu_items" list.  These names and descriptions are
\* Python literals that no code path edits: they stay strings.
MenuItem(name, description, allergens, dietary_prefs) ==
    [name |-> name, description |-> description, allergens |-> allergens,
     dietary_prefs |-> dietary_prefs]

\* The "menu_items" of the static locations.
StaticMenuItems(h) ==
    CASE h = "JJ's Place" -> <<
            MenuItem("Hamburger",
                     "Classic beef burger",
                     <<"Gluten">>, <<>>),
            MenuItem("Cheeseburger",
                     "Beef burger with cheese",
                     <<"Gluten", "Dairy">>, <<>>),
            MenuItem("Fried Chicken Burger",
                     "Crispy fried chicken sandwich",
                     <<"Gluten">>, <<>>),
            MenuItem("Chicken Nuggets",
                     "Breaded chicken nuggets",
                     <<"Gluten">>, <<>>),
            MenuItem("Chicken Tenders",
                     "Breaded chicken tenders",
                     <<"Gluten">>, <<>>),
            MenuItem("French Fries",
                     "Crispy golden fries",
                     <<>>, <<"Vegan", "Gluten Free">>),
            MenuItem("Quesadilla",
                     "Cheese quesadilla",
                     <<"Dairy", "Gluten">>, <<"Vegetarian">>),
            MenuItem("Pancakes",
                     "Fluffy pancakes",
                     <<"Gluten", "Eggs", "Dairy">>, <<"Vegetarian">>),
            MenuItem("Chocolate Chip Pancakes",
                     "Pancakes with chocolate chips",
                     <<"Gluten", "Eggs", "Dairy">>, <<"Vegetarian">>),
            MenuItem("French Toast",
                     "Classic french toast",
                     <<"Gluten", "Eggs", "Dairy">>, <<"Vegetarian">>) >>
      [] h = "Blue Java Butler" -> <<
            MenuItem("Hot Espresso Beverages",
                     "Lattes, cappuccinos, americanos",
                     <<"Dairy">>, <<>>),
            MenuItem("Iced Espresso Beverages",
                     "Iced lattes, iced cappuccinos",
                     <<"Dairy">>, <<>>),
            MenuItem("Iced Coffee",
                     "Cold brewed iced coffee",
                     <<>>, <<"Vegan">>),
            MenuItem("Hot Brewed Coffee",
                     "Fresh hot coffee",
                     <<>>, <<"Vegan">>),
            MenuItem("Cold Brew Coffee",
                     "Slow-steeped cold brew",
                     <<>>, <<"Vegan">>),
            MenuItem("Paninis",
                     "Assorted grilled paninis",
                     <<"Gluten", "Dairy">>, <<>>),
            MenuItem("Republic of Tea",
                     "Premium tea selection",
                     <<>>, <<"Vegan">>),
            MenuItem("Specialty Teas",
                     "Assorted specialty teas",
                     <<>>, <<"Vegan">>),
            MenuItem("Assorted Muffins",
                     "Various muffin flavors",
                     <<"Gluten", "Eggs", "Dairy">>, <<"Vegetarian">>),
            MenuItem("Assorted Pastries",
                     "Fresh baked pastries",
                     <<"Gluten", "Eggs", "Dairy">>, <<"Vegetarian">>),
            MenuItem("Chilled Drinks",
                     "Bottled beverages and juices",
                     <<>>, <<"Vegan">>),
            MenuItem("Assorted Fruit",
                     "Fresh fruit cups",
                     <<>>, <<"Vegan", "Gluten Free">>),
            MenuItem("Assorted Snacks",
                     "Grab and go snacks",
                     <<>>, <<>>) >>
      [] h \in {"Blue Java Uris", "Blue Java Mudd", "Blue Java Everett"} -> <<
            MenuItem("Hot Espresso Beverages",
                     "Lattes, cappuccinos, americanos",
                     <<"Dairy">>, <<>>),
            MenuItem("Iced Espresso Beverages",
                     "Iced lattes, iced cappuccinos",
                     <<"Dairy">>, <<>>),
            MenuItem("Iced Coffee",
                     "Cold brewed iced coffee",
                     <<>>, <<"Vegan">>),
            MenuItem("Hot Brewed Coffee",
                     "Fresh hot coffee",
                     <<>>, <<"Vegan">>),
            MenuItem("Cold Brew Coffee",
                     "Slow-steeped cold brew",
                     <<>>, <<"Vegan">>),
            MenuItem("Paninis",
                     "Assorted grilled paninis",
                     <<"Gluten", "Dairy">>, <<>>),
            MenuItem("Republic of Tea",
                     "Premium tea selection",
                     <<>>, <<"Vegan">>),
            MenuItem("Assorted Muffins",
                     "Various muffin flavors",
                     <<"Gluten", "Eggs", "Dairy">>, <<"Vegetarian">>),
            MenuItem("Assorted Pastries",
                     "Fresh baked pastries",
                     <<"Gluten", "Eggs", "Dairy">>, <<"Vegetarian">>),
            MenuItem("Chilled Drinks",
                     "Bottled beverages and juices",
                     <<>>, <<"Vegan">>),
            MenuItem("Assorted Fruit",
                     "Fresh fruit cups",
                     <<>>, <<"Vegan", "Gluten Free">>),
            MenuItem("Assorted Snacks",
                     "Grab and go snacks",
                     <<>>, <<>>) >>
      [] h = "Lenfest Cafe" \/ h = "Robert F. Smith" -> <<
            MenuItem("Hot Espresso Beverages",
                     "Lattes, cappuccinos, americanos",
                     <<"Dairy">>, <<>>),
            MenuItem("Iced Coffee",
                     "Cold brewed iced coffee",
                     <<>>, <<"Vegan">>),
            MenuItem("Hot Brewed Coffee",
                     "Fresh hot coffee",
                     <<>>, <<"Vegan">>),
            MenuItem("Sandwiches",
                     "Fresh made sandwiches",
                     <<"Gluten">>, <<>>),
            MenuItem("Salads",
                     "Fresh salads",
                     <<>>, <<"Vegetarian">>),
            MenuItem("Assorted Pastries",
                     "Fresh baked pastries",
                     <<"Gluten", "Eggs", "Dairy">>, <<"Vegetarian">>),
            MenuItem("Chilled Drinks",
                     "Bottled beverages and juices",
                     <<>>, <<"Vegan">>),
            MenuItem("Assorted Snacks",
                     "Grab and go snacks",
                     <<>>, <<>>) >>

\* The "operating_hours" of the static locations.
OperatingHours(h) ==
    CASE h = "JJ's Place" ->
            "Open daily 12:00 p.m. - 10:00 a.m."
      [] h = "Blue Java Butler" ->
            "Monday - Thursday, 8 a.m. - 12 a.m. | Friday - Sunday, 9 a.m. - 9 p.m."
      [] h = "Blue Java Uris" ->
            "Monday - Friday: 8:00 a.m. - 5:30 p.m."
      [] h = "Blue Java Mudd" ->
            "Monday - Friday: 8 a.m. - 6 p.m."
      [] h = "Blue Java Everett" ->
            "Monday - Thursday, 8:00 a.m. - 7:30 p.m. | Friday, 8:00 a.m. - 2:30 p.m."
      [] h = "Lenfest Cafe" ->
            "Monday - Thursday: 8:00 a.m. - 6:30 p.m. | Friday: 8:00 a.m. - 3:00 p.m."
      [] h = "Robert F. Smith" ->
            "Monday - Thursday, 8 a.m. - 4:30 p.m. | Friday, 8 a.m. - 4 p.m."

\* A static location: the schedules carry one window named "hours".
STATIC_MENU_LOCATIONS ==
    [h \in {"JJ's Place", "Blue Java Butler", "Blue Java Uris",
            "Blue Java Mudd", "Blue Java Everett", "Lenfest Cafe",
            "Robert F. Smith"} |->
     LET config ==
     CASE h = "JJ's Place" ->
            Simple(AllDays, <<W("hours", 12, 0, 10, 0)>>)
       [] h = "Blue Java Butler" ->
            Complex(<<Sched(MonToThu, <<W("hours", 8, 0, 0, 0)>>),
                      Sched({"friday", "saturday", "sunday"},
                            <<W("hours", 9, 0, 21, 0)>>)>>)
       [] h = "Blue Java Uris" ->
            Simple(MonToFri, <<W("hours", 8, 0, 17, 30)>>)
       [] h = "Blue Java Mudd" ->
            Simple(MonToFri, <<W("hours", 8, 0, 18, 0)>>)
       [] h = "Blue Java Everett" ->
            Complex(<<Sched(MonToThu, <<W("hours", 8, 0, 19, 30)>>),
                      Sched({"friday"}, <<W("hours", 8, 0, 14, 30)>>)>>)
       [] h = "Lenfest Cafe" ->
            Complex(<<Sched(MonToThu, <<W("hours", 8, 0, 18, 30)>>),
                      Sched({"friday"}, <<W("hours", 8, 0, 15, 0)>>)>>)
       [] h = "Robert F. Smith" ->
            Complex(<<Sched(MonToThu, <<W("hours", 8, 0, 16, 30)>>),
                      Sched({"friday"}, <<W("hours", 8, 0, 16, 0)>>)>>)
     IN [simple |-> config.simple, schedules |-> config.schedules,
         operating_hours |-> OperatingHours(h),
         menu_items |-> StaticMenuItems(h)]]

----------------------------------------------------------------------------
(* Time Window Resolver *)

\* None and the empty dict are both falsy and the callers only test
\* truthiness, so "no meal times" is the empty list.
NoMealTimes == <<>>

NoMeal == "None"

\* Index of the first schedule of the list whose days contain d (0 if none).
RECURSIVE FirstScheduleFor(_, _, _)
FirstScheduleFor(schedules, d, i) ==
    IF i > Len(schedules) THEN 0
    ELSE IF d \in schedules[i].days THEN i
    ELSE FirstScheduleFor(schedules, d, i + 1)

\* Mutant: on a day no schedule lists, the first schedule is used.
get_meal_times_for_hall_Fallback(hall_name, t) ==
    IF hall_name \notin DOMAIN hall_meal_times THEN NoMealTimes
    ELSE LET config == hall_meal_times[hall_name]
             i == FirstScheduleFor(config.schedules, day_name(t), 1)
         IN IF i = 0 THEN config.schedules[1].meals
            ELSE config.schedules[i].meals

get_meal_times_for_hall(hall_name, t) ==
    IF hall_name \notin DOMAIN hall_meal_times THEN NoMealTimes
    ELSE LET config == hall_meal_times[hall_name]
             i == FirstScheduleFor(config.schedules, day_name(t), 1)
         IN IF i = 0 THEN NoMealTimes ELSE config.schedules[i].meals

start_minutes(times) == times.start[1] * 60 + times.start[2]
end_minutes(times) == times.end[1] * 60 + times.end[2]

\* Mutant: the end of a window belongs to it.
window_matches_Closed(times, cur) ==
    IF end_minutes(times) < start_minutes(times)
    THEN cur >= start_minutes(times) \/ cur <= end_minutes(times)
    ELSE start_minutes(times) <= cur /\ cur <= end_minutes(times)

\* The membership test shared by is_hall_open_now and
\* get_current_meal_for_hall.
window_matches(times, cur) ==
    IF end_minutes(times) < start_minutes(times)
    THEN cur >= start_minutes(times) \/ cur < end_minutes(times)
    ELSE start_minutes(times) <= cur /\ cur < end_minutes(times)

\* Mutant: the part of a window after midnight belongs to the weekday on
\* which the window started.
is_hall_open_now_StartDay(hall_name, t_day, t_min) ==
    LET mts == get_meal_times_for_hall(hall_name, t_day)
        before == get_meal_times_for_hall(
                     hall_name, [t_day EXCEPT !.date = t_day.date + 6])
        cur == current_minutes(t_min)
    IN \/ \E i \in 1..Len(mts) :
             /\ window_matches(mts[i], cur)
             /\ end_minutes(mts[i]) < start_minutes(mts[i]) =>
                   cur >= start_minutes(mts[i])
       \/ \E i \in 1..Len(before) :
             /\ end_minutes(before[i]) < start_minutes(before[i])
             /\ cur < end_minutes(before[i])

\* t_day is the instant read inside get_meal_times_for_hall, t_min the one
\* read afterwards for current_minutes.
is_hall_open_now(hall_name, t_day, t_min) ==
    LET mts == get_meal_times_for_hall(hall_name, t_day)
    IN \E i \in 1..Len(mts) :
          window_matches(mts[i], current_minutes(t_min))

\* Mutant: the loop keeps going and the last accepted window wins.
RECURSIVE FirstMatching_LastWins(_, _, _)
FirstMatching_LastWins(mts, cur, i) ==
    IF i > Len(mts) THEN NoMeal
    ELSE LET later == FirstMatching_LastWins(mts, cur, i + 1)
         IN IF later # NoMeal THEN later
            ELSE IF window_matches(mts[i], cur) THEN mts[i].name
            ELSE NoMeal

RECURSIVE FirstMatching(_, _, _)
FirstMatching(mts, cur, i) ==
    IF i > Len(mts) THEN NoMeal
    ELSE IF window_matches(mts[i], cur) THEN mts[i].name
    ELSE FirstMatching(mts, cur, i + 1)

get_current_meal_for_hall(hall_name, t_day, t_min) ==
    FirstMatching(get_meal_times_for_hall(hall_name, t_day),
                  current_minutes(t_min), 1)

\* Mutant: a window that ends on the next day is tested as a plain interval.
is_static_hall_open_SameDay(hall_name, t) ==
    IF hall_name \notin DOMAIN static_locations THEN FALSE
    ELSE LET config == static_locations[hall_name]
             i == FirstScheduleFor(config.schedules, day_name(t), 1)
         IN IF i = 0 \/ config.schedules[i].meals = <<>> THEN FALSE
            ELSE LET hours == config.schedules[i].meals[1]
                     cur == current_minutes(t)
                 IN start_minutes(hours) <= cur /\ cur < end_minutes(hours)

is_static_hall_open(hall_name, t) ==
    IF hall_name \notin DOMAIN static_locations THEN FALSE
    ELSE LET config == static_locations[hall_name]
             i == FirstScheduleFor(config.schedules, day_name(t), 1)
         IN IF i = 0 \/ config.schedules[i].meals = <<>> THEN FALSE
            ELSE LET hours == config.schedules[i].meals[1]
                     s == start_minutes(hours)
                     e == end_minutes(hours)
                     midnight == hours.end = <<0, 0>>
                     cur == current_minutes(t)
                 IN IF e < s \/ midnight
                    THEN IF midnight
                         THEN s <= cur /\ cur < 24 * 60
                         ELSE cur >= s \/ cur < e
                    ELSE s <= cur /\ cur < e

----------------------------------------------------------------------------
(* Date Range Filter *)

\* Values a date bound can take in the decoded JSON.  A string is described
\* by its format, the calendar date it spells and, when it carries a time,
\* its hour:
\*   "date"    YYYY-MM-DD                     (fromisoformat, naive)
\*   "naive"   YYYY-MM-DDTHH:MM:SS            (fromisoformat, naive)
\*   "zulu"    YYYY-MM-DDTHH:MM:SSZ           (fromisoformat, UTC)
\*   "loose"   YYYY-M-D, e.g. 2024-1-5        (only strptime accepts it)
\*   "garbage" text neither parser accepts
\*   "empty"   the empty string
DMissing == [kind |-> "missing", fmt |-> "", date |-> 0, hour |-> 0]
DNull == [kind |-> "null", fmt |-> "", date |-> 0, hour |-> 0]
DStr(fmt, d, h) == [kind |-> "str", fmt |-> fmt, date |-> d, hour |-> h]
DNum(n) == [kind |-> "num", fmt |-> "", date |-> n, hour |-> 0]

\* New York is five hours behind UTC in winter (the dates of the examples).
NY_UTC_OFFSET_HOURS == 5

\* Outcome of a call: it either raises or returns a value.
PNone == [raises |-> FALSE, none |-> TRUE, date |-> 0]
PDate(d) == [raises |-> FALSE, none |-> FALSE, date |-> d]
PRaise == [raises |-> TRUE, none |-> TRUE, date |-> 0]

\* Mutant: the ValueError of the second parser is not caught.
parse_date_to_ny_date_Uncaught(date_str) ==
    CASE date_str.kind \in {"missing", "null"} -> PNone
      [] date_str.kind = "num" ->
            IF date_str.date = 0 THEN PNone ELSE PRaise
      [] date_str.kind = "str" ->
            CASE date_str.fmt = "empty" -> PNone
              [] date_str.fmt \in {"date", "naive", "loose"} ->
                    PDate(date_str.date)
              [] date_str.fmt = "zulu" ->
                    IF date_str.hour < NY_UTC_OFFSET_HOURS
                    THEN PDate(date_str.date - 1)
                    ELSE PDate(date_str.date)
              [] OTHER -> PRaise

parse_date_to_ny_date(date_str) ==
    CASE date_str.kind \in {"missing", "null"} -> PNone
      [] date_str.kind = "num" ->
            \* 0 is falsy; any other number has no .replace
            IF date_str.date = 0 THEN PNone ELSE PRaise
      [] date_str.kind = "str" ->
            CASE date_str.fmt = "empty" -> PNone
              [] date_str.fmt \in {"date", "naive", "loose"} ->
                    \* naive: tzinfo is replaced, the date is kept
                    PDate(date_str.date)
              [] date_str.fmt = "zulu" ->
                    \* aware: converted to New York time
                    IF date_str.hour < NY_UTC_OFFSET_HOURS
                    THEN PDate(date_str.date - 1)
                    ELSE PDate(date_str.date)
              [] OTHER -> PNone

BRaise == [raises |-> TRUE, value |-> FALSE]
BReturn(b) == [raises |-> FALSE, value |-> b]

\* Mutant: a single bound opens a half-line instead of naming one day.
is_today_in_date_range_HalfOpen(dr, t) ==
    LET date_from == parse_date_to_ny_date(dr.date_from)
        date_to == parse_date_to_ny_date(dr.date_to)
        today == t.date
    IN IF date_from.raises \/ date_to.raises THEN BRaise
       ELSE IF date_from.none /\ date_to.none THEN BReturn(TRUE)
       ELSE IF ~date_from.none /\ ~date_to.none
            THEN BReturn(date_from.date <= today /\ today <= date_to.date)
       ELSE IF ~date_from.none THEN BReturn(today >= date_from.date)
       ELSE BReturn(today <= date_to.date)

\* t is the instant read by now_ny() at line 52.
is_today_in_date_range(dr, t) ==
    LET date_from == parse_date_to_ny_date(dr.date_from)
        date_to == parse_date_to_ny_date(dr.date_to)
        today == t.date
    IN IF date_from.raises \/ date_to.raises THEN BRaise
       ELSE IF date_from.none /\ date_to.none THEN BReturn(TRUE)
       ELSE IF ~date_from.none /\ ~date_to.none
            THEN BReturn(date_from.date <= today /\ today <= date_to.date)
       ELSE IF ~date_from.none THEN BReturn(today = date_from.date)
       ELSE BReturn(today = date_to.date)

----------------------------------------------------------------------------
(* Menu Normalizer: the body of the fragment loop of scrape_dynamic_hall *)

\* Text values of the decoded JSON (title, meal_text).
TMissing == [kind |-> "missing", text |-> <<>>]
TNull == [kind |-> "null", text |-> <<>>]
TStr(chars) == [kind |-> "str", text |-> chars]

\* The list of station codes of a raw station.
SMissing == [kind |-> "missing", ids |-> <<>>]
SNull == [kind |-> "null", ids |-> <<>>]
SList(ids) == [kind |-> "list", ids |-> ids]

RECURSIVE lstrip(_)
lstrip(chars) ==
    IF chars # <<>> /\ Head(chars) = " " THEN lstrip(Tail(chars)) ELSE chars

RECURSIVE rstrip(_)
rstrip(chars) ==
    IF chars # <<>> /\ chars[Len(chars)] = " "
    THEN rstrip(SubSeq(chars, 1, Len(chars) - 1))
    ELSE chars

\* str.strip()
strip(chars) == rstrip(lstrip(chars))

station_names(id) ==
    CASE id = "10" -> "Smoothie Bar"
      [] id = "12" -> "Kosher Station"
      [] id = "16" -> "Halal Station"
      [] id = "24" -> "Main Station"
      [] id = "27" -> "Bakery"
      [] id = "28" -> "Soup & Oatmeal"
      [] id = "29" -> "Vegan Station"
      [] id = "33" -> "Grill"
      [] id = "100" -> "Asian Station"
      [] id = "159" -> "Pasta Station"
      [] OTHER -> "Station"

VALID_MEAL_TYPES == [c \in {"6", "7", "8"} |->
    CASE c = "6" -> "Breakfast" [] c = "7" -> "Lunch" [] c = "8" -> "Dinner"]

meal_order == <<"Breakfast", "Lunch", "Dinner">>

\* The names a meal_times dict has as keys.
MealNames(mts) == {mts[i].name : i \in 1..Len(mts)}

NoDescription == [none |-> TRUE, text |-> <<>>]

\* Lines 691-696: the item built from one entry of meals_paragraph.  A null
\* title has no .strip(): the call raises.
ItemRaises(meal) == meal.title.kind = "null"

MakeItem(meal) ==
    [name |-> IF meal.title.kind = "str" THEN strip(meal.title.text) ELSE <<>>,
     description |->
        IF meal.meal_text.kind = "str" /\ meal.meal_text.text # <<>>
        THEN [none |-> FALSE, text |-> strip(meal.meal_text.text)]
        ELSE NoDescription,
     allergens |-> meal.allergens,
     dietary_prefs |-> meal.prefs]

\* Line 698
KeepItem(item) == item.name # <<>> /\ Len(item.name) > 2

\* Lines 690-699: the items of one raw station, in order.
RECURSIVE StationItems(_)
StationItems(meals_paragraph) ==
    IF meals_paragraph = <<>> THEN <<>>
    ELSE LET item == MakeItem(Head(meals_paragraph))
             rest == StationItems(Tail(meals_paragraph))
         IN IF KeepItem(item) THEN <<item>> \o rest ELSE rest

\* Line 685
StationName(station) ==
    station_names(IF station.station.ids # <<>> THEN station.station.ids[1]
                  ELSE "")

\* Lines 683-705: stations_data of one date_range.
RECURSIVE StationsData(_)
StationsData(stations) ==
    IF stations = <<>> THEN <<>>
    ELSE LET st == Head(stations)
             items == StationItems(st.meals_paragraph)
             rest == StationsData(Tail(stations))
         IN IF items # <<>>
            THEN <<[station |-> StationName(st), items |-> items]>> \o rest
            ELSE rest

StationsRaise(stations) ==
    \E i \in 1..Len(stations) :
        \E j \in 1..Len(stations[i].meals_paragraph) :
            ItemRaises(stations[i].meals_paragraph[j])

ItemNames(items) == {items[i].name : i \in 1..Len(items)}

\* Mutant: a later item of the same name overwrites the one already kept.
RECURSIVE MergeItems_LastWins(_, _)
MergeItems_LastWins(existing_items, new_items) ==
    IF new_items = <<>> THEN existing_items
    ELSE IF Head(new_items).name \in ItemNames(existing_items)
         THEN MergeItems_LastWins(
                 [i \in 1..Len(existing_items) |->
                     IF existing_items[i].name = Head(new_items).name
                     THEN Head(new_items) ELSE existing_items[i]],
                 Tail(new_items))
         ELSE MergeItems_LastWins(Append(existing_items, Head(new_items)),
                                  Tail(new_items))

\* Lines 719-723: append the items whose name is not yet in the station.
RECURSIVE MergeItems(_, _)
MergeItems(existing_items, new_items) ==
    IF new_items = <<>> THEN existing_items
    ELSE IF Head(new_items).name \in ItemNames(existing_items)
         THEN MergeItems(existing_items, Tail(new_items))
         ELSE MergeItems(Append(existing_items, Head(new_items)),
                         Tail(new_items))

\* Index of the first existing station with that name (0 if none).
RECURSIVE FindStation(_, _, _)
FindStation(existing_stations, name, i) ==
    IF i > Len(existing_stations) THEN 0
    ELSE IF existing_stations[i].station = name THEN i
    ELSE FindStation(existing_stations, name, i + 1)

\* Mutant: a station that is already there takes the items of the new one.
MergeStation_Replace(existing_stations, new_station) ==
    LET i == FindStation(existing_stations, new_station.station, 1)
    IN IF i = 0 THEN Append(existing_stations, new_station)
       ELSE [existing_stations EXCEPT ![i].items = new_station.items]

\* Lines 715-727 for one new station.
MergeStation(existing_stations, new_station) ==
    LET i == FindStation(existing_stations, new_station.station, 1)
    IN IF i = 0 THEN Append(existing_stations, new_station)
       ELSE [existing_stations EXCEPT ![i].items =
                MergeItems(existing_stations[i].items, new_station.items)]

\* Lines 713-727
RECURSIVE MergeStations(_, _)
MergeStations(existing_stations, stations_data) ==
    IF stations_data = <<>> THEN existing_stations
    ELSE MergeStations(MergeStation(existing_stations, Head(stations_data)),
                       Tail(stations_data))

\* Lines 663-727 for one date_range dr: the outcome is an exception or the
\* new meals_by_type.  mt is the meal_times read at line 625, t the instant
\* read by is_today_in_date_range.
FragmentRaises(dr, mt, t) ==
    LET today == is_today_in_date_range(dr, t)
    IN \/ today.raises
       \/ /\ today.value
          /\ dr.menu_type # <<>>
          /\ dr.menu_type[1] \in DOMAIN VALID_MEAL_TYPES
          /\ ~(mt # <<>>
               /\ VALID_MEAL_TYPES[dr.menu_type[1]] \notin MealNames(mt))
          /\ StationsRaise(dr.stations)

FragmentSkipped(dr, mt, t) ==
    \/ ~is_today_in_date_range(dr, t).value
    \/ dr.menu_type = <<>>
    \/ dr.menu_type[1] \notin DOMAIN VALID_MEAL_TYPES
    \/ /\ mt # <<>>
       /\ VALID_MEAL_TYPES[dr.menu_type[1]] \notin MealNames(mt)

ProcessDateRange(by_type, dr, mt, t) ==
    IF FragmentSkipped(dr, mt, t) THEN by_type
    ELSE LET meal_type == VALID_MEAL_TYPES[dr.menu_type[1]]
             stations_data == StationsData(dr.stations)
         IN IF stations_data = <<>> THEN by_type
            ELSE [by_type EXCEPT ![meal_type] =
                     MergeStations(by_type[meal_type], stations_data)]

----------------------------------------------------------------------------
(* Records *)

\* format_time_tuple: the text "<h>:<mm> <AM|PM>" as its three parts.
format_time_tuple(hour, minute) ==
    IF hour = 0 THEN [h |-> 12, m |-> 0, ampm |-> "AM"]
    ELSE IF hour < 12 THEN [h |-> hour, m |-> minute, ampm |-> "AM"]
    ELSE IF hour = 12 THEN [h |-> 12, m |-> minute, ampm |-> "PM"]
    ELSE [h |-> hour - 12, m |-> minute, ampm |-> "PM"]

NoTimeParts == [h |-> 0, m |-> 0, ampm |-> ""]

\* The "time" of a meal: None, "<start> - <end>" or a fixed text.
TimeNone == [kind |-> "none", start |-> NoTimeParts, end |-> NoTimeParts,
             text |-> ""]
TimeRange(s, e) == [kind |-> "range", start |-> s, end |-> e, text |-> ""]
TimeText(txt) == [kind |-> "text", start |-> NoTimeParts, end |-> NoTimeParts,
                  text |-> txt]

\* meal_times[meal_type]
RECURSIVE WindowNamed(_, _, _)
WindowNamed(mt, name, i) ==
    IF mt[i].name = name THEN mt[i] ELSE WindowNamed(mt, name, i + 1)

\* Mutant: the label is made from the first window of the variant.
MealTimeLabel_FirstWindow(mt, meal_type) ==
    IF mt # <<>> /\ meal_type \in MealNames(mt)
    THEN TimeRange(format_time_tuple(mt[1].start[1], mt[1].start[2]),
                   format_time_tuple(mt[1].end[1], mt[1].end[2]))
    ELSE TimeNone

\* Lines 736-741
MealTimeLabel(mt, meal_type) ==
    IF mt # <<>> /\ meal_type \in MealNames(mt)
    THEN LET times == WindowNamed(mt, meal_type, 1)
         IN TimeRange(format_time_tuple(times.start[1], times.start[2]),
                      format_time_tuple(times.end[1], times.end[2]))
    ELSE TimeNone

\* Lines 730-747
RECURSIVE BuildMeals(_, _, _)
BuildMeals(by_type, mt, i) ==
    IF i > Len(meal_order) THEN <<>>
    ELSE LET meal_type == meal_order[i]
             rest == BuildMeals(by_type, mt, i + 1)
         IN IF by_type[meal_type] # <<>>
            THEN <<[meal_type |-> meal_type,
                    time |-> MealTimeLabel(mt, meal_type),
                    stations |-> by_type[meal_type]]>> \o rest
            ELSE rest

\* Lines 750-755
DetermineStatus(meals, open) ==
    IF meals # <<>> THEN "open"
    ELSE IF open THEN "open_no_menu"
    ELSE "closed"

NoRecord == [name |-> "", meals |-> <<>>, status |-> "", source |-> "",
             has_is_open |-> FALSE, is_open |-> FALSE, has_error |-> FALSE]

\* A record with the is_open key (lines 630-638, 757-765).
OpenRecord(name, meals, status, open) ==
    [name |-> name, meals |-> meals, status |-> status, source |-> "columbia",
     has_is_open |-> TRUE, is_open |-> open, has_error |-> FALSE]

\* A record of the except clauses (lines 767-802).
ErrorRecord(name, status) ==
    [name |-> name, meals |-> <<>>, status |-> status, source |-> "columbia",
     has_is_open |-> FALSE, is_open |-> FALSE, has_error |-> TRUE]

EmptyByType == [m \in {"Breakfast", "Lunch", "Dinner"} |-> <<>>]

\* Lines 660-727: the whole loop over the date_range objects of a page, with
\* the clock standing at t.
RECURSIVE Normalize(_, _, _, _)
Normalize(by_type, page, mt, t) ==
    IF page = <<>> THEN [raises |-> FALSE, by_type |-> by_type]
    ELSE IF FragmentRaises(Head(page), mt, t)
         THEN [raises |-> TRUE, by_type |-> EmptyByType]
    ELSE Normalize(ProcessDateRange(by_type, Head(page), mt, t), Tail(page),
                   mt, t)

----------------------------------------------------------------------------
(* scrape_dynamic_hall, step by step; the clock may advance between steps *)

TransportFailures == {"http_503", "http_error", "request_exception"}

\* Mutant: without the RequestException clause a network failure falls to
\* the status computed from the schedule.
TransportStatus_Guessed(kind) ==
    CASE kind = "http_503" -> "service_unavailable"
      [] kind = "http_error" -> "error"
      [] kind = "request_exception" -> "closed"

\* Lines 767-793
TransportStatus(kind) ==
    CASE kind = "http_503" -> "service_unavailable"
      [] kind = "http_error" -> "error"
      [] kind = "request_exception" -> "network_error"

\* Lines 619-622: the request, raise_for_status and extract_menu_data.
Fetch ==
    /\ task = "dynamic" /\ pc = "start"
    /\ IF upstream.kind \in TransportFailures
       THEN /\ record' = ErrorRecord(hall, TransportStatus(upstream.kind))
            /\ pc' = "done"
       ELSE /\ pc' = "meal_times"
            /\ UNCHANGED record
    /\ UNCHANGED <<now, catalog_vars, system_vars, resolver_vars, filter_vars, input_vars,
                   dynamic_vars, results>>

\* Line 625
GetMealTimes ==
    /\ task = "dynamic" /\ pc = "meal_times"
    /\ meal_times' = get_meal_times_for_hall(hall, now)
    /\ pc' = "is_open_day"
    /\ UNCHANGED <<now, catalog_vars, system_vars, resolver_vars, filter_vars, input_vars,
                   open_day_read, is_open, meals_by_type, frag_i, record,
                   results>>

\* Line 626, first clock read of is_hall_open_now (line 428 -> 409)
IsOpenReadDay ==
    /\ task = "dynamic" /\ pc = "is_open_day"
    /\ open_day_read' = now
    /\ pc' = "is_open_minute"
    /\ UNCHANGED <<now, catalog_vars, system_vars, resolver_vars, filter_vars, input_vars,
                   meal_times, is_open, meals_by_type, frag_i, record,
                   results>>

\* Line 626, second clock read (line 432), then lines 629-638
IsOpenReadMinute ==
    /\ task = "dynamic" /\ pc = "is_open_minute"
    /\ LET open == is_hall_open_now(hall, open_day_read, now)
       IN /\ is_open' = open
          /\ IF upstream.kind = "no_menu_data" \/ upstream.menu_data = <<>>
             THEN /\ record' = OpenRecord(hall, <<>>,
                                   IF open THEN "open_no_menu" ELSE "closed",
                                   open)
                  /\ pc' = "done"
             ELSE /\ pc' = "loop"
                  /\ UNCHANGED record
    /\ UNCHANGED <<now, catalog_vars, system_vars, resolver_vars, filter_vars, input_vars,
                   meal_times, open_day_read, meals_by_type, frag_i, results>>

\* Lines 660-727, one date_range; an exception ends in lines 794-802
ProcessFragment ==
    /\ task = "dynamic" /\ pc = "loop"
    /\ frag_i <= Len(upstream.menu_data)
    /\ LET dr == upstream.menu_data[frag_i]
       IN IF FragmentRaises(dr, meal_times, now)
          THEN /\ record' = ErrorRecord(hall, "error")
               /\ pc' = "done"
               /\ UNCHANGED <<meals_by_type, frag_i>>
          ELSE /\ meals_by_type' =
                      ProcessDateRange(meals_by_type, dr, meal_times, now)
               /\ frag_i' = frag_i + 1
               /\ UNCHANGED <<record, pc>>
    /\ UNCHANGED <<now, catalog_vars, system_vars, resolver_vars, filter_vars, input_vars,
                   meal_times, open_day_read, is_open, results>>

\* Lines 729-765
BuildRecord ==
    /\ task = "dynamic" /\ pc = "loop"
    /\ frag_i > Len(upstream.menu_data)
    /\ LET meals == BuildMeals(meals_by_type, meal_times, 1)
       IN record' = OpenRecord(hall, meals, DetermineStatus(meals, is_open),
                               is_open)
    /\ pc' = "done"
    /\ UNCHANGED <<now, catalog_vars, system_vars, resolver_vars, filter_vars, input_vars,
                   dynamic_vars, results>>

\* scrape_dynamic_hall as one function of the hall, the upstream answer and
\* one instant t at which every clock read of the run is made.
scrape_dynamic_hall(hall_name, up, t) ==
    IF up.kind \in TransportFailures
    THEN ErrorRecord(hall_name, TransportStatus(up.kind))
    ELSE LET mt == get_meal_times_for_hall(hall_name, t)
             open == is_hall_open_now(hall_name, t, t)
         IN IF up.kind = "no_menu_data" \/ up.menu_data = <<>>
            THEN OpenRecord(hall_name, <<>>,
                            IF open THEN "open_no_menu" ELSE "closed", open)
            ELSE LET merged == Normalize(EmptyByType, up.menu_data, mt, t)
                     meals == BuildMeals(merged.by_type, mt, 1)
                 IN IF merged.raises THEN ErrorRecord(hall_name, "error")
                    ELSE OpenRecord(hall_name, meals,
                                    DetermineStatus(meals, open), open)

----------------------------------------------------------------------------
(* scrape_static_hall *)

\* Lines 574-581: the record of a hall the static catalog does not list.
UnlistedRecord(name) ==
    [name |-> name, meals |-> <<>>, status |-> "closed",
     source |-> "columbia", has_is_open |-> FALSE, is_open |-> FALSE,
     has_error |-> FALSE]

\* Lines 583-606.  The only clock read that reaches the record is the one of
\* is_static_hall_open; the items are the list of the catalog itself.
scrape_static_hall(hall_name, t) ==
    IF hall_name \notin DOMAIN static_locations THEN UnlistedRecord(hall_name)
    ELSE LET config == static_locations[hall_name]
             open == is_static_hall_open(hall_name, t)
             meals == IF open
                      THEN <<[meal_type |-> "All Day",
                              time |-> TimeText(config.operating_hours),
                              stations |-> <<[station |-> "Menu",
                                              items |-> config.menu_items]>>]>>
                      ELSE <<>>
         IN OpenRecord(hall_name, meals,
                       IF open THEN "open" ELSE "closed", open)

ScrapeStaticHall ==
    /\ task = "static" /\ pc = "start"
    /\ record' = scrape_static_hall(hall, now)
    /\ pc' = "done"
    /\ UNCHANGED <<now, catalog_vars, system_vars, resolver_vars, filter_vars, input_vars,
                   dynamic_vars, results>>

----------------------------------------------------------------------------
(* scrape_columbia_hall of the first scraper, src/scraper.py *)

\* Lines 106-109: the titles of one station, stripped and kept when longer
\* than two characters.
TitlesOf(meals_paragraph) ==
    {strip(meals_paragraph[k].title.text) :
        k \in {n \in 1..Len(meals_paragraph) :
                  /\ meals_paragraph[n].title.kind = "str"
                  /\ Len(strip(meals_paragraph[n].title.text)) > 2}}

\* Lines 99-109: the titles of the whole page, whatever the dates and the
\* meal types of its date_range objects.
FoodItems(page) ==
    UNION {UNION {TitlesOf(page[i].stations[j].meals_paragraph) :
                     j \in 1..Len(page[i].stations)} :
              i \in 1..Len(page)}

\* The records of this scraper have no "meals", "status" or "is_open" key:
\* a reader's .get("meals", []) sees the empty list.
FoodRecord(name, food_items, error) ==
    [name |-> name, meals |-> <<>>, status |-> "", source |-> "columbia",
     has_is_open |-> FALSE, is_open |-> FALSE, has_error |-> error,
     food_items |-> food_items]

\* Lines 68-123
scrape_columbia_hall(hall_name, up) ==
    IF up.kind \in TransportFailures THEN FoodRecord(hall_name, {}, TRUE)
    ELSE IF up.kind = "no_menu_data" \/ up.menu_data = <<>>
         THEN FoodRecord(hall_name, {}, FALSE)
    ELSE IF \E i \in 1..Len(up.menu_data) :
               StationsRaise(up.menu_data[i].stations)
         THEN FoodRecord(hall_name, {}, TRUE)
    ELSE FoodRecord(hall_name, FoodItems(up.menu_data), FALSE)

ScrapeColumbiaHall ==
    /\ task = "legacy" /\ pc = "start"
    /\ record' = scrape_columbia_hall(hall, upstream)
    /\ pc' = "done"
    /\ UNCHANGED <<now, catalog_vars, system_vars, resolver_vars, filter_vars, input_vars,
                   dynamic_vars, results>>

----------------------------------------------------------------------------
(* scrape_barnard_hall *)

BarnardPeriods == <<"Breakfast", "Lunch", "Dinner">>

\* Lines 841-849: a null name has no .strip() and the period is abandoned.
BarnardItemRaises(item) == item.name.kind = "null"

FilterNames(filters) == [i \in 1..Len(filters) |-> filters[i].name]

BarnardItem(item) ==
    [name |-> IF item.name.kind = "str" THEN strip(item.name.text) ELSE <<>>,
     description |->
        IF item.desc.kind = "str" /\ item.desc.text # <<>>
        THEN [none |-> FALSE, text |-> strip(item.desc.text)]
        ELSE NoDescription,
     allergens |-> FilterNames(SelectSeq(item.filters, LAMBDA f : ~f.icon)),
     dietary_prefs |->
        FilterNames(SelectSeq(item.filters, LAMBDA f : f.icon))]

RECURSIVE BarnardItems(_)
BarnardItems(items) ==
    IF items = <<>> THEN <<>>
    ELSE LET item_obj == BarnardItem(Head(items))
             rest == BarnardItems(Tail(items))
         IN IF KeepItem(item_obj) THEN <<item_obj>> \o rest ELSE rest

\* Lines 836-855
RECURSIVE BarnardStations(_)
BarnardStations(categories) ==
    IF categories = <<>> THEN <<>>
    ELSE LET items == BarnardItems(Head(categories).items)
             rest == BarnardStations(Tail(categories))
         IN IF items # <<>>
            THEN <<[station |-> Head(categories).name, items |-> items]>>
                 \o rest
            ELSE rest

\* A period whose request fails, or whose payload makes the parsing raise,
\* is skipped by the except clause at line 864.
BarnardPeriodFails(resp) ==
    \/ resp.kind = "fail"
    \/ \E i \in 1..Len(resp.categories) :
          \E j \in 1..Len(resp.categories[i].items) :
             BarnardItemRaises(resp.categories[i].items[j])

\* Lines 810-865
RECURSIVE BarnardMeals(_, _)
BarnardMeals(responses, i) ==
    IF i > Len(BarnardPeriods) THEN <<>>
    ELSE LET rest == BarnardMeals(responses, i + 1)
             stations_data == BarnardStations(responses[i].categories)
         IN IF ~BarnardPeriodFails(responses[i]) /\ stations_data # <<>>
            THEN <<[meal_type |-> BarnardPeriods[i],
                    time |-> TimeText("Check Barnard dining hours"),
                    stations |-> stations_data]>> \o rest
            ELSE rest

\* Lines 868-872 and, with the same body, BaseScraper.is_likely_open
is_likely_open(t) ==
    LET hour == t.minute \div 60
        day == t.date % 7
    IN IF day < 5 THEN 7 <= hour /\ hour < 23 ELSE 8 <= hour /\ hour < 22

\* Lines 804-887: the record is built from the answers of the API and one
\* clock read.
scrape_barnard_hall(hall_name, responses, t) ==
    LET meals == BarnardMeals(responses, 1)
    IN [name |-> hall_name, meals |-> meals,
        status |-> DetermineStatus(meals, is_likely_open(t)),
        source |-> "barnard", has_is_open |-> FALSE,
        is_open |-> FALSE, has_error |-> FALSE]

ScrapeBarnardHall ==
    /\ task = "barnard" /\ pc = "start"
    /\ record' = scrape_barnard_hall(hall, barnard_responses, now)
    /\ pc' = "done"
    /\ UNCHANGED <<now, catalog_vars, system_vars, resolver_vars, filter_vars, input_vars,
                   dynamic_vars, results>>

----------------------------------------------------------------------------
(* CornellScraper.scrape *)

MAIN_DINING_HALLS ==
    <<"104West!", "Okenshields", "North Star Dining Room",
      "Risley Dining Room", "Robert Purcell Marketplace Eatery",
      "Becker House Dining Room", "Cook House Dining Room",
      "Rose House Dining Room", "Jansen's Dining Room at Bethe House",
      "Keeton House Dining Room", "Carl Becker House">>

\* BaseScraper.create_dining_hall
create_dining_hall(name, meals, status, error) ==
    [name |-> name, meals |-> meals, status |-> status, source |-> "cornell",
     has_is_open |-> FALSE, is_open |-> FALSE, has_error |-> error]

_create_error_response(t) ==
    LET status == IF is_likely_open(t) THEN "open_no_menu" ELSE "closed"
    IN [i \in 1..Len(MAIN_DINING_HALLS) |->
           create_dining_hall(MAIN_DINING_HALLS[i], <<>>, status, TRUE)]

\* A raw item of the Cornell payload: the name sits under "item" or "name";
\* flags is the set of dietary keys that are true.
CornellRawItem(item, name, flags) ==
    [item |-> item, name |-> name, flags |-> flags]

\* item.get("item", item.get("name", "")): the text, or <<>> for None and
\* for a name that is absent.
CornellItemName(item) ==
    LET v == IF item.item.kind = "missing" THEN item.name ELSE item.item
    IN IF v.kind = "str" THEN v.text ELSE <<>>

\* CornellScraper._extract_dietary_prefs
_extract_dietary_prefs(item) ==
    SelectSeq(<<"Healthy", "Vegan", "Vegetarian", "Gluten Free">>,
              LAMBDA p :
                 \/ p = "Healthy" /\ "healthy" \in item.flags
                 \/ p = "Vegan" /\ "vegan" \in item.flags
                 \/ p = "Vegetarian" /\ "vegetarian" \in item.flags
                 \/ p = "Gluten Free" /\ "glutenFree" \in item.flags)

\* BaseScraper.create_menu_item
create_menu_item(name, dietary_prefs) ==
    [name |-> name, description |-> NoDescription, allergens |-> <<>>,
     dietary_prefs |-> dietary_prefs]

\* Lines 328-339: the length is tested before the name is stripped.
RECURSIVE CornellItems(_)
CornellItems(items_data) ==
    IF items_data = <<>> THEN <<>>
    ELSE LET item == Head(items_data)
             item_name == CornellItemName(item)
             rest == CornellItems(Tail(items_data))
         IN IF item_name # <<>> /\ Len(item_name) > 2
            THEN <<create_menu_item(strip(item_name),
                                    _extract_dietary_prefs(item))>> \o rest
            ELSE rest

\* CornellScraper._parse_menu_to_stations
RECURSIVE _parse_menu_to_stations(_)
_parse_menu_to_stations(menu) ==
    IF menu = <<>> THEN <<>>
    ELSE LET items == CornellItems(Head(menu).items)
             rest == _parse_menu_to_stations(Tail(menu))
         IN IF items # <<>>
            THEN <<[station |-> Head(menu).category, items |-> items]>>
                 \o rest
            ELSE rest

\* CornellScraper._format_time_range.  The text of the label is not spelled
\* out: it is either made from the event's hours or the fixed text.
_format_time_range(event) ==
    IF event.has_hours THEN TimeText("hours of the event")
    ELSE TimeText("Check dining hours")

\* CornellScraper._parse_meal_event
_parse_meal_event(event) ==
    [meal_type |-> event.descr,
     time |-> _format_time_range(event),
     stations |-> _parse_menu_to_stations(event.menu)]

\* Lines 275-279: the events of today that have stations.
RECURSIVE CornellMeals(_)
CornellMeals(events) ==
    IF events = <<>> THEN <<>>
    ELSE LET meal == _parse_meal_event(Head(events))
             rest == CornellMeals(Tail(events))
         IN IF meal.stations # <<>> THEN <<meal>> \o rest ELSE rest

\* Index of the first operatingHours entry dated today (0 if none).
RECURSIVE TodayHours(_, _, _)
TodayHours(operating_hours, t, i) ==
    IF i > Len(operating_hours) THEN 0
    ELSE IF operating_hours[i].date = t.date THEN i
    ELSE TodayHours(operating_hours, t, i + 1)

\* CornellScraper._is_currently_open, on the events' timestamps
_is_currently_open(events, t) ==
    \E i \in 1..Len(events) :
        events[i].has_hours
        /\ events[i].start <= t.minute /\ t.minute <= events[i].end

\* CornellScraper._parse_eatery
_parse_eatery(eatery, t) ==
    LET i == TodayHours(eatery.operatingHours, t, 1)
        events == IF i = 0 THEN <<>> ELSE eatery.operatingHours[i].events
        meals == CornellMeals(events)
        status == IF meals # <<>> THEN "open"
                  ELSE IF _is_currently_open(events, t) THEN "open_no_menu"
                  ELSE "closed"
    IN create_dining_hall(eatery.name, meals, status, FALSE)

\* CornellScraper._scrape_dining_now_api: <<>> stands for None.
_scrape_dining_now_api(source, t) ==
    IF source.kind # "ok" \/ source.eateries = <<>> THEN <<>>
    ELSE [i \in 1..Len(source.eateries) |->
             _parse_eatery(source.eateries[i], t)]

\* Line 616 calls self.determine_status, which neither CornellScraper nor
\* BaseScraper defines: _parse_graphql_eatery ends in an AttributeError.
GraphqlEateryRaises(eatery) == TRUE

\* CornellScraper._scrape_graphql: the request fails, or answers another
\* status than 200, or has no eateries, or the parsing raises (line 563):
\* None in each case.
_scrape_graphql(source, t) ==
    IF source.kind # "ok" \/ source.eateries = <<>> THEN <<>>
    ELSE IF \E i \in 1..Len(source.eateries) :
               GraphqlEateryRaises(source.eateries[i])
         THEN <<>>
    ELSE [i \in 1..Len(source.eateries) |->
             create_dining_hall(source.eateries[i].name, <<>>, "unknown",
                                FALSE)]

\* Lines 510-523: only an SSLError of the request is caught (and the retry
\* without verification is wrapped in `except Exception`); a ConnectionError
\* or a Timeout of session.post leaves _scrape_graphql, and scrape, as an
\* exception.
GraphqlRequestRaises(source) == source.kind = "connection_error"

\* CornellScraper.scrape, lines 91-119: the first source with a non-empty
\* result wins, and the fallback list stands in when none has one.
scrape(sources, t) ==
    LET dining_now == _scrape_dining_now_api(sources.dining_now, t)
        graphql == _scrape_graphql(sources.graphql, t)
    IN IF dining_now # <<>> THEN [raises |-> FALSE, results |-> dining_now]
       ELSE IF GraphqlRequestRaises(sources.graphql)
            THEN [raises |-> TRUE, results |-> <<>>]
       ELSE IF graphql # <<>> THEN [raises |-> FALSE, results |-> graphql]
       ELSE [raises |-> FALSE, results |-> _create_error_response(t)]

CornellScrape ==
    /\ task = "cornell" /\ pc = "start"
    /\ LET out == scrape(cornell_sources, now)
       IN /\ results' = out.results
          /\ pc' = IF out.raises THEN "raised" ELSE "done"
    /\ UNCHANGED <<now, catalog_vars, system_vars, resolver_vars, filter_vars, input_vars,
                   dynamic_vars, record>>

----------------------------------------------------------------------------
(* The clock *)

Later(t, u) == t.date > u.date \/ (t.date = u.date /\ t.minute > u.minute)

At(d, h, m) == [date |-> d, minute |-> h * 60 + m]

\* Instants of the scraping runs: Monday 03:00 and 12:00, Friday 12:00 and
\* 23:30.
ScrapeInstants == {At(0, 3, 0), At(0, 12, 0), At(4, 12, 0), At(4, 23, 30)}

\* Instants at which the static locations are scraped: Monday 06:30, 11:00
\* and 23:00, Thursday 23:59, Friday 14:29 and 14:30, Saturday 12:00.
StaticInstants ==
    {At(0, 6, 30), At(0, 11, 0), At(0, 23, 0), At(3, 23, 59), At(4, 14, 29),
     At(4, 14, 30), At(5, 12, 0)}

\* The wall clock advances while a scraper runs.
Tick ==
    /\ pc \notin {"done", "raised"}
    /\ \E t \in ScrapeInstants : Later(t, now) /\ now' = t
    /\ UNCHANGED <<catalog_vars, system_vars, resolver_vars, filter_vars, input_vars,
                   dynamic_vars, pc, record, results>>

----------------------------------------------------------------------------
(* Upstream payloads *)

Pie == <<"P", "i", "e">>
PaddedPie == <<" ", "P", "i", "e", " ">>
Tea == <<"T", "e", "a">>
Jam == <<"J", "a", "m">>
Ab == <<"a", "b">>
Hot == <<"h", "o", "t">>
Cold == <<"c", "o", "l", "d", " ">>

GrilledChickenSandwich ==
    <<"G", "r", "i", "l", "l", "e", "d", " ", "C", "h", "i", "c",
      "k", "e", "n", " ", "S", "a", "n", "d", "w", "i", "c", "h">>

RawMeal(title, meal_text, allergens, prefs) ==
    [title |-> title, meal_text |-> meal_text, allergens |-> allergens,
     prefs |-> prefs]

PieHot == RawMeal(TStr(PaddedPie), TStr(Hot), <<"Gluten">>, <<>>)
PieCold == RawMeal(TStr(Pie), TStr(Cold), <<>>, <<"Vegan">>)
TeaPlain == RawMeal(TStr(Tea), TMissing, <<>>, <<>>)
JamPlain == RawMeal(TStr(Jam), TMissing, <<>>, <<>>)
Sandwich == RawMeal(TStr(GrilledChickenSandwich), TMissing, <<>>, <<>>)
ShortName == RawMeal(TStr(Ab), TNull, <<>>, <<>>)
NoTitle == RawMeal(TMissing, TStr(Hot), <<>>, <<>>)
NullTitle == RawMeal(TNull, TStr(Hot), <<>>, <<>>)

RawStation(ids, meals) == [station |-> ids, meals_paragraph |-> meals]

DateRange(date_from, date_to, menu_type, stations) ==
    [date_from |-> date_from, date_to |-> date_to, menu_type |-> menu_type,
     stations |-> stations]

Undated(menu_type, stations) ==
    DateRange(DMissing, DMissing, menu_type, stations)

\* The date_range objects the pages are built from.

\* lunch at the Grill
FragLunchGrill ==
    Undated(<<"7">>, <<RawStation(SList(<<"33">>), <<PieHot, TeaPlain>>)>>)

\* the same dish again, with other metadata, and a new dish
FragLunchGrillAgain ==
    Undated(<<"7">>, <<RawStation(SList(<<"33">>), <<PieCold, JamPlain>>)>>)

\* the same dish twice inside one raw station
FragTwiceInStation ==
    Undated(<<"7">>, <<RawStation(SList(<<"33">>), <<PieHot, PieCold>>)>>)

\* two raw stations that both map to "Station"
FragTwoStations ==
    Undated(<<"7">>, <<RawStation(SList(<<"999">>), <<PieHot>>),
                       RawStation(SMissing, <<PieCold, TeaPlain>>)>>)

\* a null station code list, a short name and a missing title
FragNullStation ==
    Undated(<<"7">>, <<RawStation(SNull, <<TeaPlain, ShortName, NoTitle>>)>>)

\* a null title
FragNullTitle ==
    Undated(<<"7">>, <<RawStation(SList(<<"33">>), <<NullTitle>>)>>)

\* a number as date bound
FragNumberDate ==
    DateRange(DNum(20240110), DMissing, <<"7">>,
              <<RawStation(SList(<<"33">>), <<TeaPlain>>)>>)

\* breakfast
FragBreakfast ==
    Undated(<<"6">>, <<RawStation(SList(<<"24">>), <<TeaPlain>>)>>)

\* the "All Day" code, which VALID_MEAL_TYPES does not map
FragAllDay ==
    Undated(<<"61">>, <<RawStation(SList(<<"24">>), <<TeaPlain>>)>>)

\* dinner, valid on date 0 only
FragDinnerDated ==
    DateRange(DStr("date", 0, 0), DStr("zulu", 0, 12), <<"8">>,
              <<RawStation(SList(<<"33">>), <<PieCold>>)>>)

\* lunch whose first bound is not a date: valid on date 4 only
FragGarbageDate ==
    DateRange(DStr("garbage", 0, 0), DStr("date", 4, 0), <<"7">>,
              <<RawStation(SList(<<"27">>), <<PieHot>>)>>)

\* lunch at the Grill, valid on date 0 only
FragLunchSandwich ==
    DateRange(DStr("date", 0, 0), DStr("date", 0, 0), <<"7">>,
              <<RawStation(SList(<<"33">>), <<Sandwich>>)>>)

Fragments ==
    {FragLunchGrill, FragLunchGrillAgain, FragTwiceInStation, FragTwoStations,
     FragNullStation, FragNullTitle, FragNumberDate, FragBreakfast,
     FragAllDay, FragDinnerDated, FragGarbageDate, FragLunchSandwich}

Pages == SeqsUpTo(Fragments, MaxFragments)

Upstreams ==
    {[kind |-> k, menu_data |-> <<>>] :
        k \in TransportFailures \cup {"no_menu_data"}}
    \cup {[kind |-> "ok", menu_data |-> p] : p \in Pages}

NoUpstream == [kind |-> "no_menu_data", menu_data |-> <<>>]

\* The venues handed to scrape_static_hall: three of COLUMBIA_STATIC_HALLS
\* and one the catalog does not list.
StaticHalls ==
    {"JJ's Place", "Blue Java Butler", "Blue Java Everett", "Fake Cafe"}

\* The venues handed to scrape_dynamic_hall: two of COLUMBIA_DYNAMIC_HALLS
\* and the hall of the test, which the catalog does not list.
DynamicHalls == {"John Jay Dining Hall", "Johnny's", "Fake Hall"}

BarnardRawItem(name) == [name |-> name, desc |-> TNull,
                         filters |-> <<[name |-> "Vegan", icon |-> TRUE],
                                       [name |-> "Soy", icon |-> FALSE]>>]

BarnardFail == [kind |-> "fail", categories |-> <<>>]
BarnardOk(categories) == [kind |-> "ok", categories |-> categories]

BarnardResponses == {
    BarnardFail,
    BarnardOk(<<>>),
    BarnardOk(<<[name |-> "Grill", items |-> <<BarnardRawItem(TStr(Pie))>>]>>),
    BarnardOk(<<[name |-> "Grill", items |-> <<BarnardRawItem(TNull)>>]>>) }

NoBarnard == [i \in 1..Len(BarnardPeriods) |-> BarnardFail]

\* Cornell payloads
PaddedA == <<" ", "a", " ">>

CornellCategory(category, items) == [category |-> category, items |-> items]

CornellEvent(descr, has_hours, start, end, menu) ==
    [descr |-> descr, has_hours |-> has_hours, start |-> start, end |-> end,
     menu |-> menu]

CornellEatery(name, operating_hours) ==
    [name |-> name, operatingHours |-> operating_hours]

CornellPie == CornellRawItem(TStr(PaddedPie), TMissing, {"vegan"})
CornellTea == CornellRawItem(TMissing, TStr(Tea), {"healthy", "glutenFree"})
CornellShort == CornellRawItem(TStr(Ab), TMissing, {})
CornellPadded == CornellRawItem(TStr(PaddedA), TMissing, {})
CornellNull == CornellRawItem(TNull, TStr(Tea), {})

\* lunch from 11:00 to 14:00 on dates 0 and 4, with the given items in one
\* category after a category of names that are too short
LunchEatery(items) ==
    CornellEatery("Okenshields",
        <<[date |-> 1, events |-> <<>>],
          [date |-> 0, events |->
              <<CornellEvent("Lunch", TRUE, 660, 840,
                  <<CornellCategory("Salads", <<CornellShort, CornellNull>>),
                    CornellCategory("Grill", items)>>)>>],
          [date |-> 4, events |->
              <<CornellEvent("Brunch", FALSE, 0, 0, <<>>),
                CornellEvent("Lunch", TRUE, 660, 840,
                  <<CornellCategory("Grill", items)>>)>>]>>)

CornellEateries ==
    {LunchEatery(<<CornellPie, CornellTea>>),
     LunchEatery(<<CornellPie, CornellPadded>>),
     LunchEatery(<<CornellShort>>),
     CornellEatery("Risley Dining Room", <<>>)}

CornellFail(kind) == [kind |-> kind, eateries |-> <<>>]
CornellOk(eateries) == [kind |-> "ok", eateries |-> eateries]

\* What a Cornell source answers: no answer, an HTTP error, or a payload.
CornellAnswers ==
    {CornellFail("fail"), CornellFail("http_error")}
    \cup {CornellOk(e) : e \in SeqsUpTo(CornellEateries, 2)}

\* The GraphQL request can also fail before any answer: with an SSLError
\* (the retry failing too) or with another exception of requests.
GraphqlAnswers ==
    CornellAnswers
    \cup {CornellFail("ssl_error"), CornellFail("connection_error")}

CornellSources == [dining_now : CornellAnswers, graphql : GraphqlAnswers]

NoCornell == [dining_now |-> CornellFail("fail"),
              graphql |-> CornellFail("fail")]

----------------------------------------------------------------------------
(* The scraping runs *)

Unset == [set |-> FALSE, value |-> FALSE]
UnsetMeal == [set |-> FALSE, value |-> NoMeal]
UnsetFilter == [set |-> FALSE, raises |-> FALSE, value |-> FALSE]
NoDateRange == Undated(<<>>, <<>>)

\* The frame of one call of scrape_dynamic_hall, scrape_static_hall or
\* scrape_barnard_hall: its argument, what its requests will yield, and its
\* locals.  Python gives every call its own frame.
Frame(tk, hall_name, up, responses) ==
    [task |-> tk, hall |-> hall_name, upstream |-> up,
     barnard_responses |-> responses, pc |-> "start",
     meal_times |-> NoMealTimes, open_day_read |-> At(0, 0, 0),
     is_open |-> FALSE, meals_by_type |-> EmptyByType, frag_i |-> 1,
     record |-> NoRecord]

\* The frame of the call that is running.
Running ==
    [task |-> task, hall |-> hall, upstream |-> upstream,
     barnard_responses |-> barnard_responses, pc |-> pc,
     meal_times |-> meal_times, open_day_read |-> open_day_read,
     is_open |-> is_open, meals_by_type |-> meals_by_type, frag_i |-> frag_i,
     record |-> record]

\* A second call next to the running one: its frame, the instant at which
\* the two calls were started, and whether a call has been suspended between
\* two of its steps.
Suspended(frame, t) == [frame |-> frame, started |-> t, preempted |-> FALSE]

\* No second call.
NoFrame == Suspended(Frame("none", "", NoUpstream, NoBarnard), At(0, 0, 0))

\* The state around the scrapers while none of it runs: run_all_scrapers
\* not started, no thread of the server, an empty table.
NoThread == -1
NoResult == [call |-> "none"]

RunIdle ==
    /\ run_pc = "idle" /\ all_results = <<>> /\ menu_data_json = "existing"

ServerIdle ==
    /\ thread_pc = <<>> /\ returncode = <<>> /\ daily_runs = 0
    /\ refresh_lock = NoThread /\ refresh_in_progress = FALSE
    /\ menu_with_nutrition_json = "existing"

DbIdle ==
    /\ ratings = {} /\ next_id = 1 /\ submitted = <<>>
    /\ db_result = NoResult /\ leaked_connection = FALSE

SystemIdle == RunIdle /\ ServerIdle /\ DbIdle

LocalsInit ==
    /\ pc = "start"
    /\ meal_times = NoMealTimes
    /\ open_day_read = At(0, 0, 0)
    /\ is_open = FALSE
    /\ meals_by_type = EmptyByType
    /\ frag_i = 1
    /\ record = NoRecord
    /\ results = <<>>

Init ==
    /\ hall_meal_times = HALL_MEAL_TIMES
    /\ static_locations = STATIC_MENU_LOCATIONS
    /\ open_result = Unset /\ meal_result = UnsetMeal /\ static_result = Unset
    /\ date_range = NoDateRange /\ filter_result = UnsetFilter
    /\ \/ /\ task = "dynamic"
          /\ hall \in DynamicHalls
          /\ upstream \in Upstreams
          /\ barnard_responses = NoBarnard
          /\ cornell_sources = NoCornell
       \/ /\ task = "static"
          /\ hall \in StaticHalls
          /\ upstream = NoUpstream
          /\ barnard_responses = NoBarnard
          /\ cornell_sources = NoCornell
       \/ /\ task = "legacy"
          /\ hall = "Fake Hall"
          /\ upstream \in Upstreams
          /\ barnard_responses = NoBarnard
          /\ cornell_sources = NoCornell
       \/ /\ task = "barnard"
          /\ hall = "Hewitt Dining Hall"
          /\ upstream = NoUpstream
          /\ barnard_responses \in [1..Len(BarnardPeriods) -> BarnardResponses]
          /\ cornell_sources = NoCornell
       \/ /\ task = "cornell"
          /\ hall = "cornell"
          /\ upstream = NoUpstream
          /\ barnard_responses = NoBarnard
          /\ cornell_sources \in CornellSources
    /\ now \in IF task = "static" THEN StaticInstants ELSE ScrapeInstants
    /\ parked = NoFrame
    /\ SystemIdle
    /\ LocalsInit

Next ==
    \/ Tick
    \/ Fetch
    \/ GetMealTimes
    \/ IsOpenReadDay
    \/ IsOpenReadMinute
    \/ ProcessFragment
    \/ BuildRecord
    \/ ScrapeStaticHall
    \/ ScrapeColumbiaHall
    \/ ScrapeBarnardHall
    \/ CornellScrape

Spec == Init /\ [][Next]_vars

----------------------------------------------------------------------------
(* Two venues processed in any interleaving: two calls, each with its own   *)
(* frame, over the same module globals and the same wall clock.  The steps  *)
(* of a call are the actions above; the scheduler may suspend the running   *)
(* call between two steps and resume the other one.                         *)

ParallelTasks == {"dynamic", "static", "barnard"}

Page(p) == [kind |-> "ok", menu_data |-> p]

GrillAtEveryPeriod ==
    [i \in 1..Len(BarnardPeriods) |->
        BarnardOk(<<[name |-> "Grill",
                     items |-> <<BarnardRawItem(TStr(Pie))>>]>>)]

\* The calls that are paired: two dynamic halls with a menu, one whose
\* request fails, two static locations and a Barnard hall.
ParallelCalls ==
    {Frame("dynamic", "John Jay Dining Hall",
           Page(<<FragLunchGrill, FragBreakfast>>), NoBarnard),
     Frame("dynamic", "Johnny's",
           Page(<<FragLunchSandwich, FragLunchGrillAgain>>), NoBarnard),
     Frame("dynamic", "Fake Hall",
           [kind |-> "request_exception", menu_data |-> <<>>], NoBarnard),
     Frame("static", "JJ's Place", NoUpstream, NoBarnard),
     Frame("static", "Blue Java Butler", NoUpstream, NoBarnard),
     Frame("barnard", "Hewitt Dining Hall", NoUpstream, GrillAtEveryPeriod)}

InitParallel ==
    /\ hall_meal_times = HALL_MEAL_TIMES
    /\ static_locations = STATIC_MENU_LOCATIONS
    /\ open_result = Unset /\ meal_result = UnsetMeal /\ static_result = Unset
    /\ date_range = NoDateRange /\ filter_result = UnsetFilter
    /\ cornell_sources = NoCornell
    /\ now \in ScrapeInstants
    /\ \E a \in ParallelCalls, b \in ParallelCalls :
          /\ a.hall # b.hall
          /\ task = a.task /\ hall = a.hall /\ upstream = a.upstream
          /\ barnard_responses = a.barnard_responses
          /\ parked = Suspended(b, now)
    /\ SystemIdle
    /\ LocalsInit

\* Mutant: the accumulator of scrape_dynamic_hall as a module global, which
\* the resumed call finds as the suspended call left it.
Switch_SharedAccumulator ==
    /\ parked.frame.task \in ParallelTasks
    /\ parked.frame.pc # "done"
    /\ parked' = [frame |-> Running, started |-> parked.started,
                 preempted |-> parked.preempted \/ pc \notin {"start", "done"}]
    /\ task' = parked.frame.task
    /\ hall' = parked.frame.hall
    /\ upstream' = parked.frame.upstream
    /\ barnard_responses' = parked.frame.barnard_responses
    /\ pc' = parked.frame.pc
    /\ meal_times' = parked.frame.meal_times
    /\ open_day_read' = parked.frame.open_day_read
    /\ is_open' = parked.frame.is_open
    /\ frag_i' = parked.frame.frag_i
    /\ record' = parked.frame.record
    /\ UNCHANGED <<now, catalog_vars, system_vars, resolver_vars, filter_vars,
                   cornell_sources, results, meals_by_type>>

\* The running call is suspended and the other one resumed.  Everything the
\* scrape functions assign is a local of the call (scrape_dynamic_hall lines
\* 625-765, scrape_static_hall lines 583-606, scrape_barnard_hall lines
\* 806-887), so the whole of it goes with the frame; the module globals and
\* the clock stay.
Switch ==
    /\ parked.frame.task \in ParallelTasks
    /\ parked.frame.pc # "done"
    /\ parked' = [frame |-> Running, started |-> parked.started,
                 preempted |-> parked.preempted \/ pc \notin {"start", "done"}]
    /\ task' = parked.frame.task
    /\ hall' = parked.frame.hall
    /\ upstream' = parked.frame.upstream
    /\ barnard_responses' = parked.frame.barnard_responses
    /\ pc' = parked.frame.pc
    /\ meal_times' = parked.frame.meal_times
    /\ open_day_read' = parked.frame.open_day_read
    /\ is_open' = parked.frame.is_open
    /\ meals_by_type' = parked.frame.meals_by_type
    /\ frag_i' = parked.frame.frag_i
    /\ record' = parked.frame.record
    /\ UNCHANGED <<now, catalog_vars, system_vars, resolver_vars, filter_vars,
                   cornell_sources, results>>

NextParallel ==
    \/ Tick
    \/ Fetch
    \/ GetMealTimes
    \/ IsOpenReadDay
    \/ IsOpenReadMinute
    \/ ProcessFragment
    \/ BuildRecord
    \/ ScrapeStaticHall
    \/ ScrapeBarnardHall
    \/ Switch

SpecParallel == InitParallel /\ [][NextParallel]_vars

----------------------------------------------------------------------------
(* The server: the scheduler thread, which runs update_menus at 03:00, and  *)
(* the threads trigger_refresh_async starts, which run it under the guard.  *)
(* A thread takes one step at a time; the steps of the threads interleave.  *)

Scheduler == 0
RefreshThreads == 1..MaxRefresh
Threads == {Scheduler} \cup RefreshThreads

\* A thread is inside update_menus: before the scraper step, in it, or in
\* the nutrition step.
UpdatePcs == {"update", "scraping", "enriching"}

\* A file as the last subprocess that wrote it left it.
WrittenBy(t) == [writer |-> t]

InitServer ==
    /\ hall_meal_times = HALL_MEAL_TIMES
    /\ static_locations = STATIC_MENU_LOCATIONS
    /\ open_result = Unset /\ meal_result = UnsetMeal /\ static_result = Unset
    /\ date_range = NoDateRange /\ filter_result = UnsetFilter
    /\ task = "server" /\ hall = "" /\ upstream = NoUpstream
    /\ barnard_responses = NoBarnard /\ cornell_sources = NoCornell
    /\ now = At(0, 3, 0)
    /\ parked = NoFrame
    /\ LocalsInit
    /\ run_pc = "idle" /\ all_results = <<>>
    /\ menu_data_json = WrittenBy(NoThread)
    /\ thread_pc = [t \in Threads |->
                       IF t = Scheduler THEN "sleep" ELSE "unborn"]
    /\ returncode = [t \in Threads |-> "none"]
    /\ daily_runs = 0
    /\ refresh_lock = NoThread /\ refresh_in_progress = FALSE
    /\ menu_with_nutrition_json = WrittenBy(NoThread)
    /\ DbIdle

\* What the server's steps leave alone.
ServerFrame ==
    UNCHANGED <<now, catalog_vars, run_pc, all_results, db_vars, resolver_vars,
                filter_vars, input_vars, dynamic_vars, pc, record, results>>

\* Lines 129-130: trigger_refresh_async starts a thread and returns.
Trigger ==
    /\ \E t \in RefreshThreads :
          /\ thread_pc[t] = "unborn"
          /\ \A u \in RefreshThreads : u < t => thread_pc[u] # "unborn"
          /\ thread_pc' = [thread_pc EXCEPT ![t] = "lock"]
    /\ UNCHANGED <<refresh_lock, refresh_in_progress, returncode, daily_runs,
                   menu_data_json, menu_with_nutrition_json>>
    /\ ServerFrame

\* Mutant: the guard without its lock.
Acquire_NoLock(t) ==
    /\ thread_pc[t] = "lock"
    /\ thread_pc' = [thread_pc EXCEPT ![t] = "is_set"]
    /\ UNCHANGED <<refresh_lock, refresh_in_progress, returncode, daily_runs,
                   menu_data_json, menu_with_nutrition_json>>
    /\ ServerFrame

\* Line 120: `with _refresh_lock` waits until the lock is free.
Acquire(t) ==
    /\ thread_pc[t] = "lock"
    /\ refresh_lock = NoThread
    /\ refresh_lock' = t
    /\ thread_pc' = [thread_pc EXCEPT ![t] = "is_set"]
    /\ UNCHANGED <<refresh_in_progress, returncode, daily_runs,
                   menu_data_json, menu_with_nutrition_json>>
    /\ ServerFrame

\* Lines 121-122: with the flag set the thread returns, which leaves the
\* `with` block and releases the lock.
IsSet(t) ==
    /\ thread_pc[t] = "is_set"
    /\ IF refresh_in_progress
       THEN /\ thread_pc' = [thread_pc EXCEPT ![t] = "returned"]
            /\ refresh_lock' = NoThread
       ELSE /\ thread_pc' = [thread_pc EXCEPT ![t] = "set"]
            /\ UNCHANGED refresh_lock
    /\ UNCHANGED <<refresh_in_progress, returncode, daily_runs,
                   menu_data_json, menu_with_nutrition_json>>
    /\ ServerFrame

\* Line 123 and the end of the `with` block.
Set(t) ==
    /\ thread_pc[t] = "set"
    /\ refresh_in_progress' = TRUE
    /\ refresh_lock' = NoThread
    /\ thread_pc' = [thread_pc EXCEPT ![t] = "update"]
    /\ UNCHANGED <<returncode, daily_runs, menu_data_json,
                   menu_with_nutrition_json>>
    /\ ServerFrame

\* Lines 107 and 112-114: run_pending finds the 03:00 job due and calls
\* update_menus, with no look at the guard.
Due ==
    /\ thread_pc[Scheduler] = "sleep"
    /\ daily_runs < MaxDaily
    /\ daily_runs' = daily_runs + 1
    /\ thread_pc' = [thread_pc EXCEPT ![Scheduler] = "update"]
    /\ UNCHANGED <<refresh_lock, refresh_in_progress, returncode,
                   menu_data_json, menu_with_nutrition_json>>
    /\ ServerFrame

\* Where a thread goes when update_menus ends: a guarded thread to its
\* `finally` clause; the scheduler back to sleep, or, when update_menus
\* raised, out of its loop.
AfterUpdate(t, raised) ==
    IF t # Scheduler THEN "clear"
    ELSE IF raised THEN "dead" ELSE "sleep"

\* Mutant: update_menus called without try/finally.
EnterUpdate_NoFinally(t) ==
    /\ thread_pc[t] = "update"
    /\ \/ thread_pc' = [thread_pc EXCEPT ![t] = "scraping"]
       \/ thread_pc' = [thread_pc EXCEPT ![t] =
                            IF t # Scheduler THEN "finished" ELSE "dead"]
    /\ returncode' = [returncode EXCEPT ![t] = "none"]
    /\ UNCHANGED <<refresh_lock, refresh_in_progress, daily_runs,
                   menu_data_json, menu_with_nutrition_json>>
    /\ ServerFrame

\* Lines 30-50: update_menus prints its banner, outside its `try`, and
\* starts the scraper subprocess; the banner can raise (a closed stdout).
EnterUpdate(t) ==
    /\ thread_pc[t] = "update"
    /\ \/ thread_pc' = [thread_pc EXCEPT ![t] = "scraping"]
       \/ thread_pc' = [thread_pc EXCEPT ![t] = AfterUpdate(t, TRUE)]
    /\ returncode' = [returncode EXCEPT ![t] = "none"]
    /\ UNCHANGED <<refresh_lock, refresh_in_progress, daily_runs,
                   menu_data_json, menu_with_nutrition_json>>
    /\ ServerFrame

\* How subprocess.run of the scraper step ends: return code 0, another
\* return code, TimeoutExpired after 300 s, or an exception before the
\* subprocess ran.
ScraperOutcomes == {"0", "nonzero", "timeout", "raises"}

\* Mutant: the `return` of line 63 is missing and the `except` clause lets
\* the run go on.
FinishScraper_NoReturn(t) ==
    /\ thread_pc[t] = "scraping"
    /\ \E rc \in ScraperOutcomes, wrote \in BOOLEAN :
          /\ rc = "raises" => ~wrote
          /\ returncode' = [returncode EXCEPT ![t] = rc]
          /\ menu_data_json' = IF wrote THEN WrittenBy(t) ELSE menu_data_json
          /\ thread_pc' = [thread_pc EXCEPT ![t] = "enriching"]
    /\ UNCHANGED <<refresh_lock, refresh_in_progress, daily_runs,
                   menu_with_nutrition_json>>
    /\ ServerFrame

\* Lines 44-77 and 96-97: the scraper step ends, having written
\* menu_data.json or not; with return code 0 the nutrition subprocess is
\* started, else update_menus returns.
FinishScraper(t) ==
    /\ thread_pc[t] = "scraping"
    /\ \E rc \in ScraperOutcomes, wrote \in BOOLEAN :
          /\ rc = "raises" => ~wrote
          /\ returncode' = [returncode EXCEPT ![t] = rc]
          /\ menu_data_json' = IF wrote THEN WrittenBy(t) ELSE menu_data_json
          /\ thread_pc' = [thread_pc EXCEPT ![t] =
                               IF rc = "0" THEN "enriching"
                               ELSE AfterUpdate(t, FALSE)]
    /\ UNCHANGED <<refresh_lock, refresh_in_progress, daily_runs,
                   menu_with_nutrition_json>>
    /\ ServerFrame

\* Lines 71-97: the nutrition step ends, having written
\* menu_with_nutrition.json or not, and update_menus returns.
FinishNutrition(t) ==
    /\ thread_pc[t] = "enriching"
    /\ \E wrote \in BOOLEAN :
          menu_with_nutrition_json' =
             IF wrote THEN WrittenBy(t) ELSE menu_with_nutrition_json
    /\ thread_pc' = [thread_pc EXCEPT ![t] = AfterUpdate(t, FALSE)]
    /\ UNCHANGED <<refresh_lock, refresh_in_progress, returncode, daily_runs,
                   menu_data_json>>
    /\ ServerFrame

\* Lines 126-127: the `finally` clause clears the flag and the thread ends,
\* and with it the locals of its update_menus call.
Clear(t) ==
    /\ thread_pc[t] = "clear"
    /\ refresh_in_progress' = FALSE
    /\ thread_pc' = [thread_pc EXCEPT ![t] = "finished"]
    /\ returncode' = [returncode EXCEPT ![t] = "none"]
    /\ UNCHANGED <<refresh_lock, daily_runs, menu_data_json,
                   menu_with_nutrition_json>>
    /\ ServerFrame

\* The steps of one thread.
ThreadStep(t) ==
    \/ Acquire(t)
    \/ IsSet(t)
    \/ Set(t)
    \/ EnterUpdate(t)
    \/ FinishScraper(t)
    \/ FinishNutrition(t)
    \/ Clear(t)

NextServer ==
    \/ Trigger
    \/ Due
    \/ \E t \in Threads : ThreadStep(t)

SpecServer == InitServer /\ [][NextServer]_vars

\* A thread that can take a step takes one: the threads are scheduled, and
\* both subprocesses end, by themselves or by their timeout.
SpecServerLive ==
    SpecServer /\ \A t \in Threads : WF_vars(ThreadStep(t))

----------------------------------------------------------------------------
(* run_all_scrapers, as the server starts it: the working directory is the  *)
(* script directory, so the menu_data.json that scrape_all_locations writes *)
(* is the file run_all_scrapers decides about.                              *)

\* Lines 336-385 of the Columbia scraper: the names of the venues.
COLUMBIA_DYNAMIC_HALLS ==
    <<"John Jay Dining Hall", "Ferris Booth Commons", "Grace Dodge",
      "Faculty House 2nd Floor", "Faculty House Skyline", "Fac Shack",
      "Chef Mike's", "Johnny's">>

COLUMBIA_STATIC_HALLS ==
    <<"JJ's Place", "Blue Java Butler", "Blue Java Uris", "Blue Java Mudd",
      "Blue Java Everett", "Lenfest Cafe", "Robert F. Smith">>

BARNARD_LOCATIONS == <<"Hewitt Dining Hall", "Diana Center", "Liz's Place">>

\* What the page of a dynamic hall answers during a run: a page without
\* menu data, or an HTTP error other than 503.
RunAnswers ==
    {NoUpstream, [kind |-> "http_error", menu_data |-> <<>>]}

\* What the Cornell sources answer during a run.
RunCornellSources ==
    {NoCornell,
     [dining_now |-> CornellFail("fail"),
      graphql |-> CornellFail("connection_error")],
     [dining_now |-> CornellOk(<<CornellEatery("Risley Dining Room", <<>>)>>),
      graphql |-> CornellFail("fail")]}

\* scrape_all_locations, lines 889-943: one record per venue, list by list.
scrape_all_locations(answers, responses, t) ==
    [i \in 1..Len(COLUMBIA_DYNAMIC_HALLS) |->
        scrape_dynamic_hall(COLUMBIA_DYNAMIC_HALLS[i], answers[i], t)]
    \o [i \in 1..Len(COLUMBIA_STATIC_HALLS) |->
           scrape_static_hall(COLUMBIA_STATIC_HALLS[i], t)]
    \o [i \in 1..Len(BARNARD_LOCATIONS) |->
           scrape_barnard_hall(BARNARD_LOCATIONS[i], responses, t)]

\* Line 58: the records whose status is 'error'.
error_count(rs) == Cardinality({i \in 1..Len(rs) : rs[i].status = "error"})

\* Line 60
TooManyErrors(rs) == 2 * error_count(rs) > Len(rs)

InitRunAll ==
    /\ hall_meal_times = HALL_MEAL_TIMES
    /\ static_locations = STATIC_MENU_LOCATIONS
    /\ open_result = Unset /\ meal_result = UnsetMeal /\ static_result = Unset
    /\ date_range = NoDateRange /\ filter_result = UnsetFilter
    /\ task = "run_all" /\ hall = "" /\ upstream = NoUpstream
    /\ barnard_responses = NoBarnard
    /\ cornell_sources \in RunCornellSources
    /\ now \in ScrapeInstants
    /\ parked = NoFrame
    /\ LocalsInit
    /\ run_pc = "columbia" /\ all_results = <<>>
    /\ menu_data_json = "existing"
    /\ ServerIdle /\ DbIdle

\* Lines 43-47: scrape_columbia() returns the records, having written them
\* to menu_data.json of the working directory (lines 945-947 of the Columbia
\* scraper); an exception of it (the file cannot be opened) is swallowed.
RunColumbia ==
    /\ run_pc = "columbia"
    /\ \/ \E answers \in [1..Len(COLUMBIA_DYNAMIC_HALLS) -> RunAnswers],
             responses \in {NoBarnard} :
             LET columbia_results ==
                    scrape_all_locations(answers, responses, now)
             IN /\ menu_data_json' = columbia_results
                /\ all_results' = all_results \o columbia_results
       \/ UNCHANGED <<all_results, menu_data_json>>
    /\ run_pc' = "cornell"
    /\ UNCHANGED <<now, catalog_vars, server_vars, db_vars, resolver_vars,
                   filter_vars, input_vars, dynamic_vars, pc, record, results>>

\* Lines 49-54: scrape_cornell() returns its records or raises.
RunCornell ==
    /\ run_pc = "cornell"
    /\ LET out == scrape(cornell_sources, now)
       IN all_results' = IF out.raises THEN all_results
                         ELSE all_results \o out.results
    /\ run_pc' = "save"
    /\ UNCHANGED <<now, catalog_vars, menu_data_json, server_vars, db_vars,
                   resolver_vars, filter_vars, input_vars, dynamic_vars, pc,
                   record, results>>

\* Lines 56-66: the combined list is saved unless more than half of it are
\* errors.
SaveResults ==
    /\ run_pc = "save"
    /\ menu_data_json' = IF TooManyErrors(all_results) THEN menu_data_json
                         ELSE all_results
    /\ run_pc' = "done"
    /\ UNCHANGED <<now, catalog_vars, all_results, server_vars, db_vars,
                   resolver_vars, filter_vars, input_vars, dynamic_vars, pc,
                   record, results>>

NextRunAll == RunColumbia \/ RunCornell \/ SaveResults

SpecRunAll == InitRunAll /\ [][NextRunAll]_vars

----------------------------------------------------------------------------
(* The ratings database: one table, written by submit_rating and read by    *)
(* get_user_rating and get_rating_averages.  Every call opens its own       *)
(* connection and runs one SQL statement; SQLite runs the statements of its *)
(* connections one at a time.  Ratings are counted in tenths, the unit the  *)
(* server rounds them to.                                                   *)

Devices == {"device-a", "device-b"}
RatedHalls == {"John Jay Dining Hall", "Okenshields"}
Universities == {"columbia", "cornell"}
MealPeriods == {"lunch", "dinner"}
Dates == {"2026-02-03"}

\* Line 34: the columns of the UNIQUE constraint.  The keys callers use: a
\* hall name that two universities share, a second hall, and one venue that
\* is also rated at dinner.
RatingKeys ==
    {key \in [device_id : Devices, hall_name : RatedHalls,
              university : Universities, meal_period : MealPeriods,
              date : Dates] :
        /\ key.hall_name = "Okenshields" => key.university = "cornell"
        /\ key.meal_period = "dinner" =>
              key.hall_name = "John Jay Dining Hall"
              /\ key.university = "columbia"}

\* Ratings a caller may pass: 4.0, 7.6 and, out of range, 10.1.
SubmittedRatings == {40, 76, 101}

\* Line 31: CHECK(rating >= 0 AND rating <= 10)
CheckRating(rating) == rating >= 0 /\ rating <= 100

KeyOf(row) ==
    [device_id |-> row.device_id, hall_name |-> row.hall_name,
     university |-> row.university, meal_period |-> row.meal_period,
     date |-> row.date]

\* Lines 112-113: the row an INSERT adds, with the next AUTOINCREMENT id.
NewRow(id, key, rating) ==
    [id |-> id, device_id |-> key.device_id, hall_name |-> key.hall_name,
     university |-> key.university, meal_period |-> key.meal_period,
     rating |-> rating, date |-> key.date]

\* The rows with the key of a WHERE clause or of the UNIQUE constraint.
RowsOf(table, key) == {row \in table : KeyOf(row) = key}

\* Mutant: a plain INSERT into a table without the UNIQUE constraint.
submit_rating_PlainInsert(table, id, key, rating) ==
    IF ~CheckRating(rating)
    THEN [raises |-> TRUE, ratings |-> table, next_id |-> id]
    ELSE [raises |-> FALSE, ratings |-> table \cup {NewRow(id, key, rating)},
          next_id |-> id + 1]

\* Lines 102-119: INSERT ... ON CONFLICT(key) DO UPDATE SET rating.  A
\* rating the CHECK constraint rejects makes execute raise IntegrityError
\* before the commit, on the insert and on the update alike.
submit_rating(table, id, key, rating) ==
    IF ~CheckRating(rating)
    THEN [raises |-> TRUE, ratings |-> table, next_id |-> id]
    ELSE IF RowsOf(table, key) # {}
    THEN [raises |-> FALSE,
          ratings |-> {IF KeyOf(row) = key THEN [row EXCEPT !.rating = rating]
                       ELSE row : row \in table},
          next_id |-> id]
    ELSE [raises |-> FALSE, ratings |-> table \cup {NewRow(id, key, rating)},
          next_id |-> id + 1]

\* Python's None, and a value that is not None.
RatingNone == [is_none |-> TRUE, rating |-> 0]
RatingValue(rating) == [is_none |-> FALSE, rating |-> rating]

\* Lines 122-141: fetchone gives the first row of the SELECT, by rowid.
get_user_rating(table, key) ==
    LET rows == RowsOf(table, key)
    IN IF rows = {} THEN RatingNone
       ELSE LET row == CHOOSE r \in rows : \A q \in rows : r.id <= q.id
            IN RatingValue(row.rating)

RECURSIVE SumRatings(_)
SumRatings(rows) ==
    IF rows = {} THEN 0
    ELSE LET row == CHOOSE r \in rows : TRUE
         IN row.rating + SumRatings(rows \ {row})

\* Line 95: round(AVG(rating), 1), in tenths; a tie goes to the even tenth.
Average(rows) ==
    LET n == Cardinality(rows)
        q == SumRatings(rows) \div n
        r == SumRatings(rows) % n
    IN IF 2 * r < n THEN q
       ELSE IF 2 * r > n THEN q + 1
       ELSE IF q % 2 = 0 THEN q ELSE q + 1

\* Lines 55-99: with a university the rows of it are grouped by hall name;
\* without one (None, or the empty string) all rows are grouped by hall name
\* and university and the key is "university:hall".  The result is the
\* dictionary as the set of its entries.
get_rating_averages(table, university, meal_period, date) ==
    LET rows == {row \in table :
                   /\ university # "" => row.university = university
                   /\ row.meal_period = meal_period
                   /\ row.date = date}
        Group(row) == IF university # "" THEN <<row.hall_name, "">>
                      ELSE <<row.hall_name, row.university>>
        KeyString(g) == IF university # "" THEN g[1]
                        ELSE g[2] \o ":" \o g[1]
        groups == {Group(row) : row \in rows}
    IN {[key |-> KeyString(g),
         average |-> Average({row \in rows : Group(row) = g}),
         count |-> Cardinality({row \in rows : Group(row) = g})] :
           g \in groups}

InitRatings ==
    /\ hall_meal_times = HALL_MEAL_TIMES
    /\ static_locations = STATIC_MENU_LOCATIONS
    /\ open_result = Unset /\ meal_result = UnsetMeal /\ static_result = Unset
    /\ date_range = NoDateRange /\ filter_result = UnsetFilter
    /\ task = "ratings" /\ hall = "" /\ upstream = NoUpstream
    /\ barnard_responses = NoBarnard /\ cornell_sources = NoCornell
    /\ now = At(0, 12, 0)
    /\ parked = NoFrame
    /\ LocalsInit
    /\ RunIdle /\ ServerIdle
    /\ ratings = {} /\ next_id = 1 /\ submitted = <<>>
    /\ db_result = NoResult /\ leaked_connection = FALSE

\* What the database calls leave alone.
RatingsFrame ==
    UNCHANGED <<now, catalog_vars, run_vars, server_vars, resolver_vars,
                filter_vars, input_vars, dynamic_vars, pc, record, results>>

\* POST /api/ratings: one call of submit_rating.  `submitted` keeps the
\* calls that returned, in their order.  When execute raises, lines 118-119
\* are not reached: the connection stays open, with the transaction the
\* INSERT began, until the garbage collector closes it, and until then the
\* INSERT of every other connection raises "database is locked".
SubmitRating ==
    /\ Len(submitted) < MaxSubmissions
    /\ \E key \in RatingKeys, rating \in SubmittedRatings :
          LET out == IF leaked_connection
                     THEN [raises |-> TRUE, ratings |-> ratings,
                           next_id |-> next_id]
                     ELSE submit_rating(ratings, next_id, key, rating)
          IN /\ ratings' = out.ratings
             /\ next_id' = out.next_id
             /\ submitted' = IF out.raises THEN submitted
                             ELSE Append(submitted,
                                         [key |-> key, rating |-> rating])
             /\ db_result' = [call |-> "submit_rating",
                              raises |-> out.raises]
             /\ leaked_connection' = out.raises
    /\ RatingsFrame

\* The garbage collector closes the connection a failed submit_rating left
\* open; its transaction, which changed nothing, is rolled back.
CollectConnection ==
    /\ leaked_connection
    /\ leaked_connection' = FALSE
    /\ UNCHANGED <<ratings, next_id, submitted, db_result>>
    /\ RatingsFrame

\* GET /api/ratings/user
GetUserRating ==
    /\ \E key \in RatingKeys :
          db_result' = [call |-> "get_user_rating", key |-> key,
                        value |-> get_user_rating(ratings, key)]
    /\ UNCHANGED <<ratings, next_id, submitted, leaked_connection>>
    /\ RatingsFrame

\* GET /api/ratings/averages, with or without ?university=
GetRatingAverages ==
    /\ \E university \in Universities \cup {""},
          meal_period \in MealPeriods, date \in Dates :
          db_result' = [call |-> "get_rating_averages",
                        university |-> university,
                        meal_period |-> meal_period, date |-> date,
                        value |-> get_rating_averages(ratings, university,
                                                      meal_period, date)]
    /\ UNCHANGED <<ratings, next_id, submitted, leaked_connection>>
    /\ RatingsFrame

NextRatings ==
    \/ SubmitRating
    \/ CollectConnection
    \/ GetUserRating
    \/ GetRatingAverages

SpecRatings == InitRatings /\ [][NextRatings]_vars

----------------------------------------------------------------------------
(* The resolver on its own: the catalogs and the instant are drawn from     *)
(* bounded sets and each function is applied to them.                       *)

\* Window bounds of the generated catalogs: midnight, 11:00 and 14:30.
TimeGrid == {<<0, 0>>, <<11, 0>>, <<14, 30>>}

\* Every bound of the grid, one minute before it and one minute after it.
ResolverMinutes ==
    UNION {{(b[1] * 60 + b[2] + d) % MINUTES_PER_DAY : d \in {0, 1, 1439}} :
           b \in TimeGrid}

\* A Monday and a Saturday.
ResolverInstants == {[date |-> d, minute |-> m] :
                        d \in {0, 5}, m \in ResolverMinutes}

ProbeHall == "Probe Hall"

\* The i-th generated window is named after the i-th regular meal.
ProbeNames == <<"Breakfast", "Lunch", "Dinner", "Late Night">>

ProbeMeals ==
    {[i \in 1..Len(b) |->
        [name |-> ProbeNames[i], start |-> b[i][1], end |-> b[i][2]]] :
     b \in SeqsUpTo(TimeGrid \X TimeGrid, MaxWindows)}

WithHall(catalog, name, config) ==
    [h \in DOMAIN catalog \cup {name} |->
        IF h = name THEN config ELSE catalog[h]]

\* Either the dynamic catalog or the static one carries a generated entry
\* for the probe hall, open Monday to Friday.
ProbeCatalogs ==
    {<<WithHall(HALL_MEAL_TIMES, ProbeHall, Simple(MonToFri, meals)),
       STATIC_MENU_LOCATIONS>> : meals \in ProbeMeals}
    \cup
    {<<HALL_MEAL_TIMES,
       WithHall(STATIC_MENU_LOCATIONS, ProbeHall,
                Simple(MonToFri, <<W("hours", s[1], s[2], e[1], e[2])>>))>> :
     s \in TimeGrid, e \in TimeGrid}

ResolverHalls == {ProbeHall, "John Jay Dining Hall", "JJ's Place"}

InitResolver ==
    /\ now \in ResolverInstants
    /\ \E c \in ProbeCatalogs :
          hall_meal_times = c[1] /\ static_locations = c[2]
    /\ hall \in ResolverHalls
    /\ open_result = Unset /\ meal_result = UnsetMeal /\ static_result = Unset
    /\ date_range = NoDateRange /\ filter_result = UnsetFilter
    /\ task = "resolver"
    /\ upstream = NoUpstream
    /\ barnard_responses = NoBarnard
    /\ cornell_sources = NoCornell
    /\ parked = NoFrame
    /\ SystemIdle
    /\ LocalsInit

CallIsHallOpenNow ==
    /\ task = "resolver"
    /\ open_result' = [set |-> TRUE, value |-> is_hall_open_now(hall, now, now)]
    /\ UNCHANGED <<now, catalog_vars, system_vars, meal_result, static_result, filter_vars,
                   input_vars, dynamic_vars, pc, record, results>>

CallGetCurrentMealForHall ==
    /\ task = "resolver"
    /\ meal_result' = [set |-> TRUE,
                       value |-> get_current_meal_for_hall(hall, now, now)]
    /\ UNCHANGED <<now, catalog_vars, system_vars, open_result, static_result, filter_vars,
                   input_vars, dynamic_vars, pc, record, results>>

CallIsStaticHallOpen ==
    /\ task = "resolver"
    /\ static_result' = [set |-> TRUE, value |-> is_static_hall_open(hall, now)]
    /\ UNCHANGED <<now, catalog_vars, system_vars, open_result, meal_result, filter_vars,
                   input_vars, dynamic_vars, pc, record, results>>

NextResolver ==
    \/ CallIsHallOpenNow
    \/ CallGetCurrentMealForHall
    \/ CallIsStaticHallOpen

SpecResolver == InitResolver /\ [][NextResolver]_vars

----------------------------------------------------------------------------
(* The resolver over the shipped catalogs: every venue of HALL_MEAL_TIMES   *)
(* and STATIC_MENU_LOCATIONS, on every weekday.                             *)

CatalogVenues == DOMAIN HALL_MEAL_TIMES \cup DOMAIN STATIC_MENU_LOCATIONS

\* The bounds, in minutes of the day, of the windows a catalog declares.
WindowBounds(catalog) ==
    UNION {UNION {UNION {{start_minutes(catalog[h].schedules[i].meals[j]),
                          end_minutes(catalog[h].schedules[i].meals[j])} :
                         j \in 1..Len(catalog[h].schedules[i].meals)} :
                  i \in 1..Len(catalog[h].schedules)} :
           h \in DOMAIN catalog}

\* What a window holds changes only at its bounds: every bound any shipped
\* window has, the minute before it and the minute after it.
CatalogMinutes ==
    {(b + d) % MINUTES_PER_DAY :
        b \in WindowBounds(HALL_MEAL_TIMES)
                 \cup WindowBounds(STATIC_MENU_LOCATIONS),
        d \in {0, 1, MINUTES_PER_DAY - 1}}

\* Monday to Sunday.
CatalogInstants ==
    {[date |-> d, minute |-> m] : d \in 0..6, m \in CatalogMinutes}

InitCatalog ==
    /\ now \in CatalogInstants
    /\ hall_meal_times = HALL_MEAL_TIMES
    /\ static_locations = STATIC_MENU_LOCATIONS
    /\ hall \in CatalogVenues
    /\ open_result = Unset /\ meal_result = UnsetMeal /\ static_result = Unset
    /\ date_range = NoDateRange /\ filter_result = UnsetFilter
    /\ task = "resolver"
    /\ upstream = NoUpstream
    /\ barnard_responses = NoBarnard
    /\ cornell_sources = NoCornell
    /\ parked = NoFrame
    /\ SystemIdle
    /\ LocalsInit

NextCatalog ==
    \/ CallIsHallOpenNow
    \/ CallGetCurrentMealForHall
    \/ CallIsStaticHallOpen

SpecCatalog == InitCatalog /\ [][NextCatalog]_vars

----------------------------------------------------------------------------
(* The date range filter on its own *)

DateBounds ==
    {DMissing, DNull, DNum(0), DNum(20240110),
     DStr("empty", 0, 0), DStr("garbage", 0, 0)}
    \cup {DStr("date", d, 0) : d \in 0..MaxDate}
    \cup {DStr("loose", d, 0) : d \in 0..MaxDate}
    \cup {DStr(f, d, h) : f \in {"naive", "zulu"}, d \in 0..MaxDate,
                          h \in {2, 12}}

InitFilter ==
    /\ now \in {At(d, 12, 0) : d \in 0..MaxDate}
    /\ hall_meal_times = HALL_MEAL_TIMES
    /\ static_locations = STATIC_MENU_LOCATIONS
    /\ hall = "John Jay Dining Hall"
    /\ open_result = Unset /\ meal_result = UnsetMeal /\ static_result = Unset
    /\ \E f \in DateBounds, t \in DateBounds :
          date_range = DateRange(f, t, <<"7">>, <<>>)
    /\ filter_result = UnsetFilter
    /\ task = "filter"
    /\ upstream = NoUpstream
    /\ barnard_responses = NoBarnard
    /\ cornell_sources = NoCornell
    /\ parked = NoFrame
    /\ SystemIdle
    /\ LocalsInit

CallIsTodayInDateRange ==
    /\ task = "filter"
    /\ LET r == is_today_in_date_range(date_range, now)
       IN filter_result' = [set |-> TRUE, raises |-> r.raises,
                            value |-> r.value]
    /\ UNCHANGED <<now, catalog_vars, system_vars, resolver_vars, date_range, input_vars,
                   dynamic_vars, pc, record, results>>

NextFilter == CallIsTodayInDateRange

SpecFilter == InitFilter /\ [][NextFilter]_vars

----------------------------------------------------------------------------
(* Properties of the Time Window Resolver (SpecResolver) *)

\* Membership as the specification words it: a window whose end is not
\* after its start crosses midnight.
SpecMembership(times, cur) ==
    IF end_minutes(times) > start_minutes(times)
    THEN start_minutes(times) <= cur /\ cur < end_minutes(times)
    ELSE cur >= start_minutes(times) \/ cur < end_minutes(times)

\* The windows active for the hall at the instant now.
ActiveWindows == get_meal_times_for_hall(hall, now)

ActiveStaticWindows ==
    IF hall \notin DOMAIN static_locations THEN <<>>
    ELSE LET config == static_locations[hall]
             i == FirstScheduleFor(config.schedules, day_name(now), 1)
         IN IF i = 0 THEN <<>> ELSE config.schedules[i].meals

SetMin(S) == CHOOSE x \in S : \A y \in S : x <= y

\* C1: is_hall_open_now, get_current_meal_for_hall and is_static_hall_open
\* decide by the membership of the specification: start <= t < end when
\* end > start, and t >= start or t < end when end <= start (end = start
\* included).
C1_MembershipAsSpecified ==
    LET cur == current_minutes(now)
        M == {i \in 1..Len(ActiveWindows) :
                 SpecMembership(ActiveWindows[i], cur)}
    IN /\ open_result.set => (open_result.value <=> M # {})
       /\ meal_result.set =>
             meal_result.value =
                IF M = {} THEN NoMeal ELSE ActiveWindows[SetMin(M)].name
       /\ static_result.set =>
             (static_result.value <=>
                \E i \in 1..Len(ActiveStaticWindows) :
                    SpecMembership(ActiveStaticWindows[i], cur))

\* C10: get_current_meal_for_hall returns the name of the first window, in
\* declaration order, that the resolver's membership test accepts at now;
\* is_hall_open_now is true iff some window is accepted; so the hall is open
\* iff it has a current meal, and of two overlapping windows the one
\* declared first wins.
C10_FirstDeclaredWins ==
    LET cur == current_minutes(now)
        M == {i \in 1..Len(ActiveWindows) :
                 window_matches(ActiveWindows[i], cur)}
    IN /\ meal_result.set =>
             meal_result.value =
                IF M = {} THEN NoMeal ELSE ActiveWindows[SetMin(M)].name
       /\ open_result.set => (open_result.value <=> M # {})
       /\ (meal_result.set /\ open_result.set) =>
             (open_result.value <=> meal_result.value # NoMeal)

\* Two windows overlap at now and the one declared first was returned.
C10_Witness ==
    /\ meal_result.set /\ open_result.set
    /\ Len(ActiveWindows) >= 2
    /\ window_matches(ActiveWindows[1], current_minutes(now))
    /\ window_matches(ActiveWindows[2], current_minutes(now))
    /\ ActiveWindows[1].start # ActiveWindows[2].start
    /\ meal_result.value = ActiveWindows[1].name
    /\ open_result.value

\* The catalog has no entry for the hall, or none of the entry's Schedule
\* Variants lists today's weekday.
NoVariantToday(catalog) ==
    \/ hall \notin DOMAIN catalog
    \/ \A i \in 1..Len(catalog[hall].schedules) :
          day_name(now) \notin catalog[hall].schedules[i].days

\* C11: a venue absent from the catalog, or with no Schedule Variant for
\* today's weekday, is not open and has no current meal at every time of
\* day; the three functions return a value, they do not raise.
C11_NoVariantNotOpen ==
    /\ NoVariantToday(hall_meal_times) =>
          /\ open_result.set => ~open_result.value
          /\ meal_result.set => meal_result.value = NoMeal
    /\ NoVariantToday(static_locations) =>
          (static_result.set => ~static_result.value)

\* On a Saturday the probe hall, whose only variant is Monday to Friday and
\* has a window holding the current minute, was resolved by the three
\* functions; so was a hall the static catalog does not list.
C11_Witness ==
    /\ open_result.set /\ meal_result.set /\ static_result.set
    /\ day_name(now) = "saturday"
    /\ hall = ProbeHall
    /\ hall \in DOMAIN hall_meal_times
    /\ hall \notin DOMAIN static_locations
    /\ \E i \in 1..Len(hall_meal_times[hall].schedules[1].meals) :
          window_matches(hall_meal_times[hall].schedules[1].meals[i],
                         current_minutes(now))
    /\ ~open_result.value /\ meal_result.value = NoMeal
    /\ ~static_result.value

----------------------------------------------------------------------------
(* Properties of the Date Range Filter (SpecFilter) *)

ParsedFrom == parse_date_to_ny_date(date_range.date_from)
ParsedTo == parse_date_to_ny_date(date_range.date_to)

\* C8: the filter decides by the parsed New York dates only: no bound gives
\* true, one bound gives today = bound, two bounds give from <= today <= to.
C8_DateRangePolicy ==
    (filter_result.set /\ ~ParsedFrom.raises /\ ~ParsedTo.raises) =>
       /\ ~filter_result.raises
       /\ filter_result.value <=>
             CASE ParsedFrom.none /\ ParsedTo.none -> TRUE
               [] ~ParsedFrom.none /\ ParsedTo.none ->
                     now.date = ParsedFrom.date
               [] ParsedFrom.none /\ ~ParsedTo.none ->
                     now.date = ParsedTo.date
               [] OTHER ->
                     ParsedFrom.date <= now.date /\ now.date <= ParsedTo.date

\* A range of three days was applied strictly inside it: the lower bound is
\* a UTC time that falls on the previous New York day.
C8_Witness ==
    /\ filter_result.set /\ filter_result.value
    /\ date_range.date_from = DStr("zulu", 1, 2)
    /\ date_range.date_to = DStr("date", 2, 0)
    /\ now.date = 1

Unparseable(b) == b.kind = "str" /\ b.fmt \in {"garbage", "empty"}
Absent(b) == b.kind \in {"missing", "null"}

\* C9: a bound whose text cannot be parsed counts as absent and nothing is
\* raised: with the other bound absent (or unparseable too) the fragment
\* applies, with the other bound a date it applies iff today is that date.
C9_UnparseableIsAbsent ==
    filter_result.set =>
       \A p \in {<<date_range.date_from, date_range.date_to>>,
                 <<date_range.date_to, date_range.date_from>>} :
          Unparseable(p[1]) =>
             LET other == parse_date_to_ny_date(p[2])
             IN /\ (Absent(p[2]) \/ Unparseable(p[2])) =>
                      (~filter_result.raises /\ filter_result.value)
                /\ (~other.raises /\ ~other.none) =>
                      /\ ~filter_result.raises
                      /\ filter_result.value <=> (now.date = other.date)

\* An unparseable lower bound with a dated upper bound, applied on that date.
C9_Witness ==
    /\ filter_result.set /\ filter_result.value
    /\ date_range.date_from = DStr("garbage", 0, 0)
    /\ date_range.date_to = DStr("date", 2, 0)
    /\ now.date = 2

----------------------------------------------------------------------------
(* Properties of the scraping runs (Spec) *)

StaticReturned == task = "static" /\ pc = "done"

\* The static venue is open now: today's variant has an "hours" window that
\* holds the current minute (an end at or before the start is on the next
\* day).
StaticOpenNow ==
    \E i \in 1..Len(ActiveStaticWindows) :
        SpecMembership(ActiveStaticWindows[i], current_minutes(now))

\* C12: for a static venue of the catalog the record has, when the venue is
\* open now, status "open" and exactly one meal, "All Day", with one station
\* holding the catalog's menu_items in catalog order; otherwise status
\* "closed" and no meals.  JJ's Place (12:00-10:00) is open at 23:00 and at
\* 06:30 and closed at 11:00.
C12_StaticAllDay ==
    (StaticReturned /\ hall \in DOMAIN STATIC_MENU_LOCATIONS) =>
       /\ IF StaticOpenNow
          THEN /\ record.status = "open"
               /\ Len(record.meals) = 1
               /\ record.meals[1].meal_type = "All Day"
               /\ Len(record.meals[1].stations) = 1
               /\ record.meals[1].stations[1].items
                     = STATIC_MENU_LOCATIONS[hall].menu_items
          ELSE /\ record.status = "closed"
               /\ record.meals = <<>>
       /\ hall = "JJ's Place" =>
             /\ now.minute \in {23 * 60, 6 * 60 + 30} => record.status = "open"
             /\ now.minute = 11 * 60 => record.status = "closed"

\* JJ's Place was scraped at 06:30, inside the window that began the day
\* before: the ten items of the catalog are emitted, Hamburger first.
C12_Witness ==
    /\ StaticReturned
    /\ hall = "JJ's Place"
    /\ now.minute = 6 * 60 + 30
    /\ record.status = "open"
    /\ Len(record.meals[1].stations[1].items) = 10
    /\ record.meals[1].stations[1].items[1].name = "Hamburger"
    /\ record.meals[1].stations[1].items[10].name = "French Toast"

Returned == pc = "done"

DynamicReturned == task = "dynamic" /\ pc = "done"

TransportStatuses == {"network_error", "service_unavailable", "error"}

\* C2: once the page was fetched, status is "open" when meals is not empty,
\* else "open_no_menu" when is_open, else "closed".
C2_StatusTruthTable ==
    (DynamicReturned /\ upstream.kind \notin TransportFailures) =>
       record.status = IF record.meals # <<>> THEN "open"
                       ELSE IF is_open THEN "open_no_menu"
                       ELSE "closed"

\* The upstream fetch failed at the transport layer.
DynamicFetchFailed == task = "dynamic" /\ upstream.kind \in TransportFailures
BarnardFetchFailed ==
    /\ task = "barnard"
    /\ \A i \in 1..Len(BarnardPeriods) : barnard_responses[i].kind = "fail"
CornellFetchFailed ==
    /\ task = "cornell"
    /\ cornell_sources.dining_now.kind # "ok"
    /\ cornell_sources.graphql.kind # "ok"

RecordItems(meal_type, station) ==
    LET ms == {i \in 1..Len(record.meals) :
                  record.meals[i].meal_type = meal_type}
    IN IF ms = {} THEN <<>>
       ELSE LET sts == record.meals[SetMin(ms)].stations
                ss == {j \in 1..Len(sts) : sts[j].station = station}
            IN IF ss = {} THEN <<>> ELSE sts[SetMin(ss)].items

\* C4: a malformed fragment is dropped alone: when the page holds the
\* well-formed lunch fragment, which is valid every day, and the hall serves
\* lunch, the record is not an error and holds that fragment's dishes.
C4_MalformedFragmentDropped ==
    (DynamicReturned /\ upstream.kind = "ok"
       /\ \E i \in 1..Len(upstream.menu_data) :
             upstream.menu_data[i] = FragLunchGrill
       /\ "Lunch" \in MealNames(meal_times)) =>
       /\ record.status # "error"
       /\ {Pie, Tea} \subseteq ItemNames(RecordItems("Lunch", "Grill"))

\* C5: every emitted meal is one the active Schedule Variant declares; with
\* no active variant nothing is emitted.
C5_OnlyDeclaredMeals ==
    DynamicReturned =>
       \A i \in 1..Len(record.meals) :
          record.meals[i].meal_type \in MealNames(meal_times)

\* C6: no station of an emitted record holds two items of the same name.
C6_NoDuplicateNames ==
    Returned =>
       \A i \in 1..Len(record.meals) :
          \A j \in 1..Len(record.meals[i].stations) :
             LET items == record.meals[i].stations[j].items
             IN \A a, b \in 1..Len(items) :
                   items[a].name = items[b].name => a = b

\* A fragment whose text fields and date bounds are well typed.
WellTyped(dr) ==
    /\ dr.date_from.kind # "num" /\ dr.date_to.kind # "num"
    /\ \A i \in 1..Len(dr.stations) :
          \A j \in 1..Len(dr.stations[i].meals_paragraph) :
             dr.stations[i].meals_paragraph[j].title.kind # "null"

\* One step of the fragment loop keeps every station where it is, keeps its
\* items unchanged as a prefix, appends only names the station did not have,
\* and does not fail on a well-typed fragment.
C7_Step ==
    (task = "dynamic" /\ pc = "loop") =>
       /\ \A m \in DOMAIN meals_by_type :
             LET old == meals_by_type[m]
                 new == meals_by_type'[m]
             IN /\ Len(new) >= Len(old)
                /\ \A i \in 1..Len(old) :
                      /\ new[i].station = old[i].station
                      /\ Len(new[i].items) >= Len(old[i].items)
                      /\ SubSeq(new[i].items, 1, Len(old[i].items))
                            = old[i].items
                      /\ \A j \in (Len(old[i].items) + 1)..Len(new[i].items) :
                            new[i].items[j].name \notin ItemNames(old[i].items)
       /\ (frag_i <= Len(upstream.menu_data)
             /\ WellTyped(upstream.menu_data[frag_i])) => pc' = "loop"

\* The record carries the stations as the loop left them.
C7_Emitted ==
    (DynamicReturned /\ record.status = "open") =>
       \A i \in 1..Len(record.meals) :
          record.meals[i].stations = meals_by_type[record.meals[i].meal_type]

\* C7: of several fragments that bring the same dish to the same station of
\* the same meal the first one's description, allergens and dietary_prefs
\* are emitted; later duplicates are dropped silently and new dishes are
\* appended after the existing ones.
C7_FirstOccurrenceWins == [][C7_Step]_vars /\ []C7_Emitted

\* Two lunch fragments brought Pie to the Grill with different metadata; the
\* record has the first one's and the new dish Jam after Tea.
C7_Witness ==
    /\ DynamicReturned
    /\ upstream.menu_data = <<FragLunchGrill, FragLunchGrillAgain>>
    /\ RecordItems("Lunch", "Grill")
          = <<MakeItem(PieHot), MakeItem(TeaPlain), MakeItem(JamPlain)>>
    /\ MakeItem(PieHot).description # MakeItem(PieCold).description

----------------------------------------------------------------------------
(* Properties of the emitted records, whatever the source (Spec) *)

\* The records a finished run has emitted.
EmittedRecords ==
    IF pc # "done" THEN {}
    ELSE IF task = "cornell" THEN {results[i] : i \in 1..Len(results)}
    ELSE {record}

\* A record has no noise: every item name, trimmed, is longer than two
\* characters, every station has an item and every meal has a station.
NoNoise(r) ==
    \A i \in 1..Len(r.meals) :
       /\ r.meals[i].stations # <<>>
       /\ \A j \in 1..Len(r.meals[i].stations) :
             LET items == r.meals[i].stations[j].items
             IN /\ items # <<>>
                /\ \A k \in 1..Len(items) : Len(strip(items[k].name)) > 2

\* C13: no record emitted for a dynamic Columbia venue, a Barnard venue or
\* a Cornell eatery holds an item whose trimmed name has at most two
\* characters, a station without items or a meal without stations.
C13_NoNoise ==
    task \in {"dynamic", "barnard", "cornell"} =>
       \A r \in EmittedRecords : NoNoise(r)

----------------------------------------------------------------------------
(* Properties of the assembled meal list (Spec) *)

\* The meal names of the record, in emitted order.
EmittedNames == [i \in 1..Len(record.meals) |-> record.meals[i].meal_type]

\* The meal names the active Schedule Variant declares, in declared order.
DeclaredNames == [i \in 1..Len(meal_times) |-> meal_times[i].name]

SeqRange(q) == {q[i] : i \in 1..Len(q)}

\* C14: the emitted meals are the declared meal names of the active variant
\* that have stations, in declared order and once each; the order depends
\* on the declaration only, not on the order of the upstream fragments.
C14_DeclaredOrder ==
    DynamicReturned =>
       EmittedNames = SelectSeq(DeclaredNames,
                                LAMBDA n : n \in SeqRange(EmittedNames))

\* An (hour, minute) of the 24-hour clock in 12-hour form, with its minutes.
TwelveHour(hm) ==
    [h |-> IF hm[1] % 12 = 0 THEN 12 ELSE hm[1] % 12,
     m |-> hm[2],
     ampm |-> IF hm[1] < 12 THEN "AM" ELSE "PM"]

\* C15: every emitted meal of a dynamic venue carries the label
\* "<start> - <end>" made from the bounds of the window of that name in the
\* active variant, never None, each bound in 12-hour form with its own
\* minutes: 9:30 is "9:30 AM", 14:30 is "2:30 PM", 0:30 is "12:30 AM".
C15_TimeLabel ==
    DynamicReturned =>
       /\ \A i \in 1..Len(record.meals) :
             LET meal == record.meals[i]
             IN /\ meal.time.kind = "range"
                /\ meal.meal_type \in MealNames(meal_times)
                /\ LET times == WindowNamed(meal_times, meal.meal_type, 1)
                   IN /\ meal.time.start = TwelveHour(times.start)
                      /\ meal.time.end = TwelveHour(times.end)
       /\ format_time_tuple(9, 30) = [h |-> 9, m |-> 30, ampm |-> "AM"]
       /\ format_time_tuple(14, 30) = [h |-> 2, m |-> 30, ampm |-> "PM"]
       /\ format_time_tuple(0, 30) = [h |-> 12, m |-> 30, ampm |-> "AM"]

----------------------------------------------------------------------------
(* Idempotence of the merge (Spec) *)

\* Per meal, the stations it has and the set of item names of each.
NameSets(by_type) ==
    [m \in DOMAIN by_type |->
        {<<by_type[m][i].station, ItemNames(by_type[m][i].items)>> :
            i \in 1..Len(by_type[m])}]

SameSets(a, b) ==
    /\ a.raises = b.raises
    /\ ~a.raises => NameSets(a.by_type) = NameSets(b.by_type)

\* A fragment that the loop has just merged, merged once more at the same
\* instant, changes no set.
C16_Step ==
    (task = "dynamic" /\ pc = "loop" /\ frag_i' = frag_i + 1) =>
       NameSets(ProcessDateRange(meals_by_type', upstream.menu_data[frag_i],
                                 meal_times, now))
          = NameSets(meals_by_type')

\* The page with one of its fragments a second time, at its end or right
\* after the first copy, normalizes to the same sets as the page.
C16_Lists ==
    (task = "dynamic" /\ upstream.kind = "ok") =>
       LET page == upstream.menu_data
           once == Normalize(EmptyByType, page, meal_times, now)
       IN \A i \in 1..Len(page) :
             /\ SameSets(Normalize(EmptyByType, Append(page, page[i]),
                                   meal_times, now), once)
             /\ SameSets(Normalize(EmptyByType,
                                   SubSeq(page, 1, i) \o <<page[i]>>
                                      \o SubSeq(page, i + 1, Len(page)),
                                   meal_times, now), once)

\* C16: normalizing a fragment list that holds a fragment twice gives, for
\* every meal and station, the same set of item names, and the same meals
\* and stations, as normalizing the list with that fragment once.
C16_MergeIdempotent == [][C16_Step]_vars /\ []C16_Lists

\* The page held the lunch fragment twice and the record has its two dishes
\* once each.
C16_Witness ==
    /\ DynamicReturned
    /\ upstream.menu_data = <<FragLunchGrill, FragLunchGrill>>
    /\ Len(record.meals) = 1
    /\ Len(record.meals[1].stations) = 1
    /\ Len(RecordItems("Lunch", "Grill")) = 2
    /\ ItemNames(RecordItems("Lunch", "Grill")) = {Pie, Tea}

----------------------------------------------------------------------------
(* End to end (Spec) *)

\* John Jay was processed on Monday at 12:00: is_hall_open_now read the clock
\* at 12:00 and the clock still stands there at the end, so the minute and
\* the fragments' dates were read at 12:00 too, and the variant on Monday.
JohnJayMondayNoon ==
    /\ DynamicReturned
    /\ hall = "John Jay Dining Hall"
    /\ open_day_read = At(0, 12, 0)
    /\ now = At(0, 12, 0)

\* C17: John Jay, Monday 12:00, one Lunch fragment valid today with the
\* Grill (station code 33) holding "Grilled Chicken Sandwich": the record
\* has status "open", is_open true and exactly one meal, Lunch, labelled
\* "11:00 AM - 2:30 PM", with the one station Grill holding that item.
C17_EndToEnd ==
    (JohnJayMondayNoon /\ upstream.kind = "ok"
       /\ upstream.menu_data = <<FragLunchSandwich>>) =>
       /\ record.status = "open"
       /\ record.has_is_open /\ record.is_open
       /\ Len(record.meals) = 1
       /\ record.meals[1].meal_type = "Lunch"
       /\ record.meals[1].time =
             TimeRange([h |-> 11, m |-> 0, ampm |-> "AM"],
                       [h |-> 2, m |-> 30, ampm |-> "PM"])
       /\ Len(record.meals[1].stations) = 1
       /\ record.meals[1].stations[1].station = "Grill"
       /\ Len(record.meals[1].stations[1].items) = 1
       /\ record.meals[1].stations[1].items[1].name = GrilledChickenSandwich

\* That run has returned.
C17_Witness ==
    /\ JohnJayMondayNoon
    /\ upstream.kind = "ok"
    /\ upstream.menu_data = <<FragLunchSandwich>>
    /\ record.name = "John Jay Dining Hall"
    /\ record.status = "open"

----------------------------------------------------------------------------
(* One instant per record (Spec) *)

\* C18: the record of a dynamic venue is the one computed with the clock
\* frozen at a single instant: the weekday that picks the variant, the
\* minute of is_open and the date that filters each fragment are read from
\* the same instant, also when the wall clock advances during the run.
C18_OneInstant ==
    DynamicReturned =>
       \E t \in ScrapeInstants : record = scrape_dynamic_hall(hall, upstream, t)

----------------------------------------------------------------------------
(* The "All Day" meal-type code (Spec) *)

\* The standard windows of the three meals, as labels.
StandardLabel(meal_type) ==
    CASE meal_type = "Breakfast" ->
            TimeRange([h |-> 7, m |-> 0, ampm |-> "AM"],
                      [h |-> 10, m |-> 30, ampm |-> "AM"])
      [] meal_type = "Lunch" ->
            TimeRange([h |-> 11, m |-> 0, ampm |-> "AM"],
                      [h |-> 2, m |-> 0, ampm |-> "PM"])
      [] meal_type = "Dinner" ->
            TimeRange([h |-> 5, m |-> 0, ampm |-> "PM"],
                      [h |-> 8, m |-> 0, ampm |-> "PM"])

\* C19: a fragment with the "All Day" code "61" that is valid today comes
\* out as the three meals Breakfast, Lunch and Dinner, labelled
\* "7:00 AM - 10:30 AM", "11:00 AM - 2:00 PM" and "5:00 PM - 8:00 PM", each
\* with a station that holds every item of the fragment.
C19_AllDaySplit ==
    (Returned /\ task \in {"dynamic", "legacy"} /\ upstream.kind = "ok"
       /\ \E i \in 1..Len(upstream.menu_data) :
             upstream.menu_data[i] = FragAllDay) =>
       \A meal_type \in {"Breakfast", "Lunch", "Dinner"} :
          \E i \in 1..Len(record.meals) :
             /\ record.meals[i].meal_type = meal_type
             /\ record.meals[i].time = StandardLabel(meal_type)
             /\ \E j \in 1..Len(record.meals[i].stations) :
                   Tea \in ItemNames(record.meals[i].stations[j].items)

----------------------------------------------------------------------------
(* Properties of venues processed side by side (SpecParallel) *)

\* What the call of a frame returns when it runs alone and every clock read
\* of it is made at t.
Sequential(frame, t) ==
    CASE frame.task = "dynamic" ->
            scrape_dynamic_hall(frame.hall, frame.upstream, t)
      [] frame.task = "static" -> scrape_static_hall(frame.hall, t)
      [] frame.task = "barnard" ->
            scrape_barnard_hall(frame.hall, frame.barnard_responses, t)

\* C20: no step of a scrape operation changes HALL_MEAL_TIMES or
\* STATIC_MENU_LOCATIONS, and however the steps of two venues' calls are
\* interleaved, a call that has returned while the clock still shows the
\* instant at which the two were started has returned the record it returns
\* when it runs alone at that instant.
C20_Interleaving ==
    /\ hall_meal_times = HALL_MEAL_TIMES
    /\ static_locations = STATIC_MENU_LOCATIONS
    /\ \A frame \in {Running, parked.frame} :
          (frame.task \in ParallelTasks /\ frame.pc = "done"
              /\ now = parked.started)
          => frame.record = Sequential(frame, now)

\* Two dynamic halls have both returned a menu at the instant they were
\* started, one of them having been suspended between two of its steps.
C20_Witness ==
    /\ task = "dynamic" /\ parked.frame.task = "dynamic"
    /\ pc = "done" /\ parked.frame.pc = "done"
    /\ now = parked.started
    /\ parked.preempted
    /\ record.meals # <<>> /\ parked.frame.record.meals # <<>>
    /\ record # parked.frame.record

----------------------------------------------------------------------------
(* Properties of CornellScraper.scrape (Spec) *)

\* scrape has ended, with a list or with an exception.
CornellEnded == task = "cornell" /\ pc \in {"done", "raised"}

\* The Dining Now API yields no eateries.
DiningNowEmpty ==
    \/ cornell_sources.dining_now.kind # "ok"
    \/ cornell_sources.dining_now.eateries = <<>>

\* The GraphQL endpoint answers 200 with a non-empty campusEateries list.
GraphqlAnswered ==
    /\ cornell_sources.graphql.kind = "ok"
    /\ cornell_sources.graphql.eateries # <<>>

\* C27: when the Dining Now API yields no eateries and the GraphQL endpoint
\* answers 200 with a non-empty campusEateries list, scrape returns one
\* record per eatery of that list, named after it, and not the fallback
\* list.
C27_GraphqlUsed ==
    (CornellEnded /\ DiningNowEmpty /\ GraphqlAnswered) =>
       /\ pc = "done"
       /\ Len(results) = Len(cornell_sources.graphql.eateries)
       /\ \A i \in 1..Len(results) :
             /\ results[i].name = cornell_sources.graphql.eateries[i].name
             /\ ~results[i].has_error
       /\ results # _create_error_response(now)

\* No Cornell source is available: neither answers 200.
CornellUnavailable ==
    /\ cornell_sources.dining_now.kind # "ok"
    /\ cornell_sources.graphql.kind # "ok"

\* C28: when every Cornell source is unavailable scrape returns exactly one
\* record per name of MAIN_DINING_HALLS, each with no meals, an error
\* message and the same status, open_no_menu when is_likely_open() and
\* closed otherwise.
C28_FallbackList ==
    (CornellEnded /\ CornellUnavailable) =>
       /\ pc = "done"
       /\ Len(results) = Len(MAIN_DINING_HALLS)
       /\ \A i \in 1..Len(results) :
             /\ results[i].name = MAIN_DINING_HALLS[i]
             /\ results[i].meals = <<>>
             /\ results[i].has_error
             /\ results[i].status =
                   IF is_likely_open(now) THEN "open_no_menu" ELSE "closed"

----------------------------------------------------------------------------
(* Properties of run_all_scrapers (SpecRunAll) *)

\* The decision of line 60 never finds more than half of the records in
\* error: only the eight dynamic Columbia halls can have the status 'error',
\* and they come with the ten other records of scrape_all_locations or not
\* at all.
GuardNeverTaken ==
    run_pc \in {"save", "done"} => ~TooManyErrors(all_results)

\* The run comes to the decision of line 60 with menu_data.json already
\* replaced by the Columbia records.
ReplacedBeforeDecision == run_pc = "save" /\ menu_data_json # "existing"

----------------------------------------------------------------------------
(* Properties of the server's refreshes (SpecServer, SpecServerLive) *)

\* The threads that are executing update_menus.
Updating == {t \in Threads : thread_pc[t] \in UpdatePcs}

\* C22, state part: among the threads started by trigger_refresh_async at
\* most one is executing update_menus.
C22_OneGuarded == Cardinality(Updating \cap RefreshThreads) <= 1

\* C22, step part: a thread that found a refresh in progress has returned
\* for good, and has done so straight from the test of the flag.
C22_Step ==
    \A t \in RefreshThreads :
       /\ thread_pc[t] = "returned" => thread_pc'[t] = "returned"
       /\ (thread_pc[t] = "is_set" /\ thread_pc'[t] # "is_set"
             /\ refresh_in_progress) => thread_pc'[t] = "returned"

\* C22: under every interleaving at most one update_menus started through
\* trigger_refresh_async is in progress, and a trigger that arrives while
\* one is in progress returns without running update_menus, now or later.
C22_AtMostOneRefresh == [][C22_Step]_vars /\ []C22_OneGuarded

\* One thread is in update_menus and another has returned at the guard.
C22_Witness ==
    \E t \in RefreshThreads, u \in RefreshThreads :
       thread_pc[t] = "scraping" /\ thread_pc[u] = "returned"

\* C23: no two executions of update_menus overlap, whichever thread runs
\* them.
C23_NeverTwoUpdates == Cardinality(Updating) <= 1

\* A guarded thread is between setting the flag and clearing it.
Guarded == {t \in RefreshThreads : thread_pc[t] \in UpdatePcs \cup {"clear"}}

\* The flag is set only while a guarded refresh has not finished: once it
\* has, the next trigger finds the flag clear and runs update_menus.
C24_SetOnlyWhileRunning == [](refresh_in_progress => Guarded # {})

\* C24: every guarded refresh eventually clears the in-progress flag,
\* however its update_menus ends; the flag never stays set after the
\* refresh that set it has finished.
C24_FlagCleared ==
    /\ refresh_in_progress ~> ~refresh_in_progress
    /\ C24_SetOnlyWhileRunning

\* A guarded refresh has finished, and the trigger after it found the flag
\* clear, set it again and is running update_menus.
C24_Witness ==
    \E t \in RefreshThreads, u \in RefreshThreads :
       /\ thread_pc[t] = "finished" /\ t < u
       /\ thread_pc[u] = "scraping" /\ refresh_in_progress

\* C25, step part: a run starts its nutrition step only from its scraper
\* step and with return code 0, and menu_with_nutrition.json is written
\* only by the nutrition step of a run whose scraper step returned 0.
C25_Step ==
    /\ \A t \in Threads :
          (thread_pc'[t] = "enriching" /\ thread_pc[t] # "enriching") =>
             (thread_pc[t] = "scraping" /\ returncode'[t] = "0")
    /\ menu_with_nutrition_json' # menu_with_nutrition_json =>
          \E t \in Threads :
             /\ thread_pc[t] = "enriching" /\ returncode[t] = "0"
             /\ menu_with_nutrition_json' = WrittenBy(t)

\* C25, state part: while the nutrition step of a run is in progress the
\* scraper step of that run has returned 0.
C25_State ==
    \A t \in Threads : thread_pc[t] = "enriching" => returncode[t] = "0"

\* C25: within one update_menus run the nutrition step starts only after
\* the scraper step has finished with return code 0; a run whose scraper
\* step exits non-zero, times out or raises starts no nutrition step and
\* does not write menu_with_nutrition.json.
C25_NutritionAfterScraper == [][C25_Step]_vars /\ []C25_State

\* One run has ended after its scraper step failed, with
\* menu_with_nutrition.json as it was, and another is in its nutrition step.
C25_Witness ==
    /\ returncode[Scheduler] \in {"nonzero", "timeout", "raises"}
    /\ thread_pc[Scheduler] = "sleep"
    /\ menu_with_nutrition_json = WrittenBy(NoThread)
    /\ \E t \in RefreshThreads : thread_pc[t] = "enriching"

----------------------------------------------------------------------------
(* Properties of the ratings table (SpecRatings) *)

\* The rating of the last call in `submitted` for a key, or None.
RECURSIVE LastSubmitted(_, _)
LastSubmitted(calls, key) ==
    IF calls = <<>> THEN RatingNone
    ELSE IF calls[Len(calls)].key = key
    THEN RatingValue(calls[Len(calls)].rating)
    ELSE LastSubmitted(SubSeq(calls, 1, Len(calls) - 1), key)

\* The devices whose submissions for a hall of a university, in a meal
\* period on a date, have returned.
DevicesThatRated(hall_name, university, meal_period, date) ==
    {submitted[i].key.device_id : i \in
        {j \in 1..Len(submitted) :
            /\ submitted[j].key.hall_name = hall_name
            /\ submitted[j].key.university = university
            /\ submitted[j].key.meal_period = meal_period
            /\ submitted[j].key.date = date}}

\* The count an answer of get_rating_averages gives for a hall: 0 when the
\* hall is not in the answer.
CountFor(answer, key) ==
    IF \E e \in answer : e.key = key
    THEN (CHOOSE e \in answer : e.key = key).count
    ELSE 0

\* C26: after any sequence of submit_rating calls the table holds at most
\* one row per (device_id, hall_name, university, meal_period, date) and as
\* many rows as keys submitted; get_user_rating gives the value of the last
\* submission for the key, None when there was none; and the count
\* get_rating_averages reports for a hall is the number of devices that
\* rated it, with a university given and without one.
C26_OneRowPerKey ==
    /\ \A key \in RatingKeys :
          /\ Cardinality(RowsOf(ratings, key)) <= 1
          /\ get_user_rating(ratings, key) = LastSubmitted(submitted, key)
    /\ Cardinality(ratings) =
          Cardinality({submitted[i].key : i \in 1..Len(submitted)})
    /\ db_result.call = "get_user_rating" =>
          db_result.value = LastSubmitted(submitted, db_result.key)
    /\ db_result.call = "get_rating_averages" =>
          \A h \in RatedHalls, u \in Universities :
             (db_result.university \in {"", u}) =>
                CountFor(db_result.value,
                         IF db_result.university = "" THEN u \o ":" \o h
                         ELSE h)
                = Cardinality(DevicesThatRated(h, u, db_result.meal_period,
                                               db_result.date))

\* A device has rated a hall twice, with different ratings, and
\* get_user_rating has answered with the second one.
C26_Witness ==
    /\ Len(submitted) = 2
    /\ submitted[1].key = submitted[2].key
    /\ submitted[1].rating # submitted[2].rating
    /\ db_result.call = "get_user_rating"
    /\ db_result.key = submitted[2].key
    /\ db_result.value = RatingValue(submitted[2].rating)

----------------------------------------------------------------------------
(* Properties of the shipped catalogs (SpecCatalog) *)

\* The Schedule Variants of the hall's entry that list today's weekday.
VariantsToday(catalog) ==
    IF hall \notin DOMAIN catalog THEN {}
    ELSE {i \in 1..Len(catalog[hall].schedules) :
             day_name(now) \in catalog[hall].schedules[i].days}

\* The windows, as <<variant, window>>, of all variants of today that the
\* resolver's membership test accepts at now.
MatchingToday(catalog) ==
    {p \in UNION {{<<i, j>> : j \in 1..Len(catalog[hall].schedules[i].meals)} :
                  i \in VariantsToday(catalog)} :
        window_matches(catalog[hall].schedules[p[1]].meals[p[2]],
                       current_minutes(now))}

\* C29: in the shipped catalogs, for every venue and weekday at most one
\* Schedule Variant is active, and at every minute at most one Meal Window
\* of it matches; so what the resolver returns from the first matching
\* variant and window is what all matching variants and windows give.
C29_NoTieInShippedCatalogs ==
    /\ Cardinality(VariantsToday(hall_meal_times)) <= 1
    /\ Cardinality(VariantsToday(static_locations)) <= 1
    /\ Cardinality(MatchingToday(hall_meal_times)) <= 1
    /\ Cardinality(MatchingToday(static_locations)) <= 1
    /\ open_result.set =>
          (open_result.value <=> MatchingToday(hall_meal_times) # {})
    /\ meal_result.set =>
          {hall_meal_times[hall].schedules[p[1]].meals[p[2]].name :
              p \in MatchingToday(hall_meal_times)}
          = IF meal_result.value = NoMeal THEN {} ELSE {meal_result.value}
    /\ static_result.set =>
          (static_result.value <=>
              \E p \in MatchingToday(static_locations) : p[2] = 1)

\* At 11:00 on a Monday John Jay's Breakfast window has just ended and its
\* Lunch window has begun, and the resolver has answered Lunch.
C29_Witness ==
    /\ hall = "John Jay Dining Hall" /\ day_name(now) = "monday"
    /\ Len(ActiveWindows) >= 2
    /\ end_minutes(ActiveWindows[1]) = current_minutes(now)
    /\ start_minutes(ActiveWindows[2]) = current_minutes(now)
    /\ meal_result.set /\ meal_result.value = ActiveWindows[2].name
    /\ open_result.set /\ open_result.value

----------------------------------------------------------------------------
(* The part of a window after midnight (SpecResolver) *)

\* The weekday before today's.
Yesterday == DayNames[((now.date + 6) % 7) + 1]

\* The hall's entry has one Schedule Variant, and a window of it crosses
\* midnight and holds the current minute in its part after midnight.
AfterMidnightPart(catalog) ==
    /\ hall \in DOMAIN catalog
    /\ Len(catalog[hall].schedules) = 1
    /\ \E j \in 1..Len(catalog[hall].schedules[1].meals) :
          LET w == catalog[hall].schedules[1].meals[j]
          IN /\ end_minutes(w) < start_minutes(w)
             /\ current_minutes(now) < end_minutes(w)

\* C30: in the part [0, end) of a window that crosses midnight the venue is
\* open iff the weekday of the evaluated instant is in the variant's weekday
\* set; whether the weekday before, on which the window started, is in the
\* set plays no part.
C30_AfterMidnightByToday ==
    /\ (AfterMidnightPart(hall_meal_times) /\ open_result.set) =>
          (open_result.value <=>
              day_name(now) \in hall_meal_times[hall].schedules[1].days)
    /\ (AfterMidnightPart(hall_meal_times) /\ meal_result.set) =>
          (meal_result.value # NoMeal <=>
              day_name(now) \in hall_meal_times[hall].schedules[1].days)
    /\ (AfterMidnightPart(static_locations) /\ static_result.set) =>
          (static_result.value <=>
              day_name(now) \in static_locations[hall].schedules[1].days)

\* Saturday, one minute past midnight: the probe hall's window opened on
\* Friday, which its variant lists, and the hall was found closed.
C30_Witness ==
    /\ hall = ProbeHall /\ AfterMidnightPart(hall_meal_times)
    /\ Yesterday \in hall_meal_times[hall].schedules[1].days
    /\ day_name(now) \notin hall_meal_times[hall].schedules[1].days
    /\ open_result.set /\ ~open_result.value
    /\ meal_result.set /\ meal_result.value = NoMeal

====
